---- MODULE Spec2Model ----
(***************************************************************************)
(* Model of the workday-scraper core:                                      *)
(*   - job lifecycle tracking (db_manager.py, status_tracking.py)          *)
(*   - adaptive per-domain rate limiter (rate_limiter.py)                  *)
(*   - pagination walker and detail fetcher (jsonld_extractor.py)          *)
(* Each subsystem has its own specification over the shared variables.     *)
(***************************************************************************)
EXTENDS Integers, Sequences, FiniteSets, TLC

VARIABLES
    \* ---- job lifecycle (SQLite tables and the last save_jobs call) ----
    companies,    \* table companies: sequence of names, id = index
    jobs,         \* table jobs: sequence of rows, id = index
    history,      \* table job_status_history: sequence of entries
    clock,        \* datetime.now() of the next save_jobs call (run number)
    lastJobs,     \* argument of the most recent save_jobs call
    ret,          \* (saved, failed) returned by the most recent save_jobs call
    absentRuns,   \* per row: consecutive save_jobs calls for its company that did not list it
    repeated,     \* the most recent save_jobs call had the same argument as the one before
    scenC,        \* progress through the three runs of Scenario C
    lastFault,    \* the statement that raised a database error in the most recent call
    faults,       \* number of calls so far in which a statement raised
    \* ---- rate limiter (the DomainRateLimiter registry) ----
    rlDefaults,   \* default_initial_delay, default_min_delay, default_max_delay, default_backoff_factor
    limiters,     \* DomainRateLimiter.limiters: domain -> AdaptiveRateLimiter, created on first use
    rlCalls,      \* number of success / failure calls made so far
    rlLast,       \* the most recent call: operation, domain, error type
    streak,       \* per domain: success calls since the last failure call
    \* ---- pagination walker (one get_all_job_urls invocation) ----
    wPages,       \* the listing: pages[k] is the URL list that page k renders
    wSticky,      \* a next-page control is also found on the last page (and leads nowhere)
    wTotal,       \* total job count of the pagination label, 0 when none is found
    wTitles,      \* number of jobTitle elements on the first page
    wAlt,         \* pages served after a larger page size is chosen, <<>> if the option is missing
    wSite2,       \* pages served by base_url without its query, <<>> if it has none
    wpc,          \* position in get_all_job_urls
    job_urls, page_num, has_next_page, expected_pages, max_pages,
    alt_job_urls, alt_page_num, alt_has_next_page,
    approach2_urls, approach2_page_num, approach2_has_next_page,
    unique_urls,  \* the returned list
    kept,         \* URLs in the order seen, of the walks whose result was adopted
    fallbacks,    \* the fallback walks that ran
    \* ---- detail fetcher (one extract_job_details_from_jsonld invocation) ----
    fJobUrls,     \* the job_urls argument
    fBad,         \* the URLs whose every request fails
    fOnce,        \* the URLs whose first request fails and whose later requests succeed
    concurrency, max_retries,
    fpc,          \* position in extract_job_details_from_jsonld
    batch_start,  \* the loop variable i, counted from 1
    task,         \* per URL: state of its fetch_and_extract call and its retry_count
    result,       \* per URL: what its fetch_and_extract call returned
    semaphore,    \* free permits
    waiters,      \* calls waiting for a permit, first come first served
    failed_urls, all_results, valid_results, processed_count,
    urls_to_process,   \* the argument of the browser fallback, <<>> if it did not run
    fallback_invoked,
    \* ---- threads calling the rate limiter registry ----
    time,         \* time.time(), in whole seconds
    regLock,      \* DomainRateLimiter.lock: the thread holding it, 0 when free
    lock,         \* per domain: AdaptiveRateLimiter.lock, the thread holding it, 0 when free
    thr,          \* per thread: position in its call, the call's arguments and locals
    created,      \* per domain: number of AdaptiveRateLimiter objects constructed for it
    lockOrder,    \* per domain: the calls in the order they took the limiter's lock
    returned,     \* per domain: the most recent return of wait
    \* ---- controller (one scrape_all_companies invocation) ----
    company_urls,        \* self.company_urls: the targets in configuration order
    runpc,               \* position in scrape_all_companies
    visited,             \* number of targets scrape_company was called for
    all_jobs_to_scrape,  \* names of the targets whose listings were collected, one per job
    outcomes,            \* per visited target: how its scrape_company call ended,
                         \* with the page loads it made and the limiter calls
    \* ---- session manager (session_manager.py) ----
    max_sessions,        \* WebdriverSessionManager.max_sessions
    all_sessions,        \* the session records: id, in_use, and whether last_used
                         \* is older than session_timeout and the browser answers
    available_sessions,  \* the queue of released session ids
    upc,                 \* per caller: its position in get_session / the with block
    sid,                 \* per caller: the session id it took from the queue or holds
    below                \* per waiting caller: fewer than max_sessions sessions were
                         \* in use at some moment of its wait

lifeVars == <<companies, jobs, history, clock, lastJobs, ret, absentRuns, repeated,
              scenC, lastFault, faults>>

rlVars == <<rlDefaults, limiters, rlCalls, rlLast, streak>>

walkVars == <<wPages, wSticky, wTotal, wTitles, wAlt, wSite2, wpc,
              job_urls, page_num, has_next_page, expected_pages, max_pages,
              alt_job_urls, alt_page_num, alt_has_next_page,
              approach2_urls, approach2_page_num, approach2_has_next_page,
              unique_urls, kept, fallbacks>>

fetchVars == <<fJobUrls, fBad, fOnce, concurrency, max_retries, fpc, batch_start,
               task, result, semaphore, waiters, failed_urls, all_results,
               valid_results, processed_count, urls_to_process,
               fallback_invoked>>

thrVars == <<time, regLock, lock, thr, created, lockOrder, returned>>

runVars == <<company_urls, runpc, visited, all_jobs_to_scrape, outcomes>>

sessVars == <<max_sessions, all_sessions, available_sessions, upc, sid, below>>

vars == <<lifeVars, rlVars, walkVars, fetchVars, thrVars, runVars, sessVars>>

\* ------------------------------------------------------------------------
\* Bounds
\* ------------------------------------------------------------------------
MaxRuns == 4      \* number of save_jobs calls explored
MaxJobs == 1      \* length of the jobs list passed to one save_jobs call
MaxFaultRuns == 2 \* number of save_jobs calls explored when statements can raise
MaxFaults == 1    \* number of those calls in which a statement raises
MaxCalls == 11    \* number of success / failure calls on the rate limiter registry
MaxUrl == 2       \* number of distinct detail URLs a generated listing can show
MaxSitePages == 2 \* number of pages of a generated listing
MaxTotal == 4     \* largest total of a generated pagination label
MaxFetchUrls == 3    \* length of a short URL list given to the detail fetcher
ManyUrls == 10       \* length of the long URL list given to the detail fetcher
MaxFailing == 2      \* number of URLs with failing requests, all among the first MaxFetchUrls
MaxConcurrency == 2  \* largest concurrency argument
MaxRetries == 1      \* largest max_retries argument
MaxThreadCalls == 1  \* number of rate limiter calls one thread makes
MaxTicks == 2        \* seconds that pass while the threads run
MaxTargets == 3      \* number of targets in the configuration
MaxNavigations == 2  \* number of next-page navigations on one target

\* ------------------------------------------------------------------------
\* Generic helpers
\* ------------------------------------------------------------------------
Min(a, b) == IF a <= b THEN a ELSE b
Max(a, b) == IF a >= b THEN a ELSE b

SeqsUpTo(S, n) == UNION {[1..k -> S] : k \in 0..n}

RECURSIVE SeqToSet(_)
SeqToSet(s) == IF s = <<>> THEN {} ELSE {Head(s)} \cup SeqToSet(Tail(s))

\* ------------------------------------------------------------------------
\* Job lifecycle: inputs
\* ------------------------------------------------------------------------
\* job dictionaries handed to save_jobs; "" models a missing key
\* (job.get('company', '') / job_data.get('job_id', ''))
JobDicts ==
    {[company |-> "acme", job_id |-> "J1"], [company |-> "acme", job_id |-> "J2"],
     [company |-> "globex", job_id |-> "J1"],
     [company |-> "", job_id |-> "J1"], [company |-> "acme", job_id |-> ""]}

J1acme == [company |-> "acme", job_id |-> "J1"]

\* lists of two dictionaries: the same job twice, and jobs of two companies
PairLists ==
    [1..2 -> {[company |-> "acme", job_id |-> "J1"],
              [company |-> "globex", job_id |-> "J1"]}]

JobLists == SeqsUpTo(JobDicts, MaxJobs) \cup PairLists

\* the lists given to save_jobs when statements can raise
FaultLists ==
    PairLists \cup {<<[company |-> "acme", job_id |-> "J1"]>>,
                    <<[company |-> "globex", job_id |-> "J1"]>>,
                    <<[company |-> "acme", job_id |-> ""]>>}

\* ------------------------------------------------------------------------
\* status_tracking.py : JobStatusManager
\* ------------------------------------------------------------------------
DB(c, j, h) == [companies |-> c, jobs |-> j, history |-> h]

\* variant: the update has no WHERE company_id = ?
mark_company_jobs_as_missed_Everywhere(db, company_id) ==
    [db EXCEPT !.jobs =
        [i \in 1..Len(db.jobs) |->
            IF db.jobs[i].status = "active"
            THEN [db.jobs[i] EXCEPT !.missed_scrapes = @ + 1]
            ELSE db.jobs[i]]]

\* UPDATE jobs SET missed_scrapes = missed_scrapes + 1
\*   WHERE company_id = ? AND status = 'active'
mark_company_jobs_as_missed(db, company_id) ==
    [db EXCEPT !.jobs =
        [i \in 1..Len(db.jobs) |->
            IF db.jobs[i].company_id = company_id /\ db.jobs[i].status = "active"
            THEN [db.jobs[i] EXCEPT !.missed_scrapes = @ + 1]
            ELSE db.jobs[i]]]

\* variant: the update sets last_seen and leaves missed_scrapes alone
update_job_last_seen_NoReset(db, job_id, company_id, now) ==
    [db EXCEPT !.jobs =
        [i \in 1..Len(db.jobs) |->
            IF db.jobs[i].job_id = job_id /\ db.jobs[i].company_id = company_id
            THEN [db.jobs[i] EXCEPT !.last_seen = now]
            ELSE db.jobs[i]]]

\* variant: the update resets missed_scrapes and leaves last_seen alone
update_job_last_seen_KeepTime(db, job_id, company_id, now) ==
    [db EXCEPT !.jobs =
        [i \in 1..Len(db.jobs) |->
            IF db.jobs[i].job_id = job_id /\ db.jobs[i].company_id = company_id
            THEN [db.jobs[i] EXCEPT !.missed_scrapes = 0]
            ELSE db.jobs[i]]]

\* UPDATE jobs SET last_seen = ?, missed_scrapes = 0
\*   WHERE job_id = ? AND company_id = ?
update_job_last_seen(db, job_id, company_id, now) ==
    [db EXCEPT !.jobs =
        [i \in 1..Len(db.jobs) |->
            IF db.jobs[i].job_id = job_id /\ db.jobs[i].company_id = company_id
            THEN [db.jobs[i] EXCEPT !.last_seen = now, !.missed_scrapes = 0]
            ELSE db.jobs[i]]]

\* variant: the entry takes the place of the entries the job already has
update_job_status_Replace(db, id, status, reason, now) ==
    [db EXCEPT
        !.jobs = [i \in 1..Len(db.jobs) |->
                    IF i = id
                    THEN [db.jobs[i] EXCEPT !.status = status, !.last_seen = now]
                    ELSE db.jobs[i]],
        !.history = Append(SelectSeq(@, LAMBDA e : e.job_id # id),
                           [job_id |-> id, status |-> status,
                            changed_at |-> now, reason |-> reason])]

\* UPDATE jobs SET status = ?, last_seen = ? WHERE id = ?
\* INSERT INTO job_status_history (job_id, status, changed_at, reason)
update_job_status(db, id, status, reason, now) ==
    [db EXCEPT
        !.jobs = [i \in 1..Len(db.jobs) |->
                    IF i = id
                    THEN [db.jobs[i] EXCEPT !.status = status, !.last_seen = now]
                    ELSE db.jobs[i]],
        !.history = Append(@, [job_id |-> id, status |-> status,
                               changed_at |-> now, reason |-> reason])]

\* threshold of the sweep (missed_scrapes >= 2)
StaleThreshold == 2

reactivate_job(db, id, now) ==
    update_job_status(db, id, "active", "Job reappeared in listings", now)

\* variant: the sweep compares with > instead of >=
IsStale_Late(row, company_id) ==
    /\ row.company_id = company_id
    /\ row.status = "active"
    /\ row.missed_scrapes > StaleThreshold

\* variant: the sweep selects no row
IsStale_Never(row, company_id) == FALSE

\* SELECT id FROM jobs WHERE company_id = ? AND status = 'active'
\*   AND missed_scrapes >= 2
IsStale(row, company_id) ==
    /\ row.company_id = company_id
    /\ row.status = "active"
    /\ row.missed_scrapes >= StaleThreshold

RECURSIVE CloseStaleFrom(_, _, _, _)
CloseStaleFrom(db, company_id, now, i) ==
    IF i > Len(db.jobs) THEN db
    ELSE IF IsStale(db.jobs[i], company_id)
         THEN CloseStaleFrom(
                update_job_status(db, i, "closed",
                                  "Not found in 2 consecutive scrapes", now),
                company_id, now, i + 1)
         ELSE CloseStaleFrom(db, company_id, now, i + 1)

mark_stale_jobs_as_closed(db, company_id, now) ==
    CloseStaleFrom(db, company_id, now, 1)

\* ------------------------------------------------------------------------
\* db_manager.py : DatabaseManager
\* ------------------------------------------------------------------------
CompanyId(cs, name) == CHOOSE i \in 1..Len(cs) : cs[i] = name

\* returns the database and the company id
get_or_create_company(db, name) ==
    IF \E i \in 1..Len(db.companies) : db.companies[i] = name
    THEN [db |-> db, id |-> CompanyId(db.companies, name)]
    ELSE [db |-> [db EXCEPT !.companies = Append(@, name)],
          id |-> Len(db.companies) + 1]

\* variant: the lookup never finds the job
FindJob_Blind(js, job_id, company_id) ==
    {}

\* SELECT id, status FROM jobs WHERE job_id = ? AND company_id = ?
FindJob(js, job_id, company_id) ==
    {i \in 1..Len(js) : js[i].job_id = job_id /\ js[i].company_id = company_id}

\* variant: an existing job is reactivated whatever its status
save_job_AlwaysReactivate(db, job_data, company_id, now) ==
    IF job_data.job_id = ""
    THEN [db |-> db, ok |-> FALSE]
    ELSE LET found == FindJob(db.jobs, job_data.job_id, company_id) IN
         IF found # {}
         THEN LET id == CHOOSE i \in found : TRUE
                  d1 == reactivate_job(db, id, now)
              IN [db |-> update_job_last_seen(d1, job_data.job_id, company_id, now),
                  ok |-> TRUE]
         ELSE LET row == [job_id |-> job_data.job_id, company_id |-> company_id,
                          status |-> "active", last_seen |-> now,
                          missed_scrapes |-> 0]
                  d1 == [db EXCEPT !.jobs = Append(@, row)]
              IN [db |-> update_job_status(d1, Len(d1.jobs), "active",
                                           "Initial posting", now),
                  ok |-> TRUE]

\* returns the database and the boolean result of save_job
save_job(db, job_data, company_id, now) ==
    IF job_data.job_id = ""
    THEN [db |-> db, ok |-> FALSE]
    ELSE LET found == FindJob(db.jobs, job_data.job_id, company_id) IN
         IF found # {}
         THEN LET id == CHOOSE i \in found : TRUE
                  d1 == IF db.jobs[id].status = "closed"
                        THEN reactivate_job(db, id, now)
                        ELSE db
              IN [db |-> update_job_last_seen(d1, job_data.job_id, company_id, now),
                  ok |-> TRUE]
         ELSE LET row == [job_id |-> job_data.job_id, company_id |-> company_id,
                          status |-> "active", last_seen |-> now,
                          missed_scrapes |-> 0]
                  d1 == [db EXCEPT !.jobs = Append(@, row)]
              IN [db |-> update_job_status(d1, Len(d1.jobs), "active",
                                           "Initial posting", now),
                  ok |-> TRUE]

\* first loop of save_jobs: group jobs by company, counting the ones without one
RECURSIVE FailedNoCompany(_)
FailedNoCompany(js) ==
    IF js = <<>> THEN 0
    ELSE (IF Head(js).company = "" THEN 1 ELSE 0) + FailedNoCompany(Tail(js))

\* keys of jobs_by_company in insertion order
RECURSIVE CompanyOrder(_, _)
CompanyOrder(js, acc) ==
    IF js = <<>> THEN acc
    ELSE LET c == Head(js).company IN
         IF c = "" \/ c \in SeqToSet(acc)
         THEN CompanyOrder(Tail(js), acc)
         ELSE CompanyOrder(Tail(js), Append(acc, c))

CompanyJobs(js, name) == SelectSeq(js, LAMBDA j : j.company = name)

\* inner loop of save_jobs over one company's jobs; st = [db, saved, failed]
RECURSIVE SaveEach(_, _, _, _)
SaveEach(st, company_jobs, company_id, now) ==
    IF company_jobs = <<>> THEN st
    ELSE LET r == save_job(st.db, Head(company_jobs), company_id, now) IN
         SaveEach(
            IF r.ok
            THEN [db |-> update_job_last_seen(r.db, Head(company_jobs).job_id,
                                              company_id, now),
                  saved |-> st.saved + 1, failed |-> st.failed]
            ELSE [db |-> r.db, saved |-> st.saved, failed |-> st.failed + 1],
            Tail(company_jobs), company_id, now)

\* body of the per-company loop of save_jobs
ProcessCompany(st, name, js, now) ==
    LET gc == get_or_create_company(st.db, name)
        d1 == mark_company_jobs_as_missed(gc.db, gc.id)
        s2 == SaveEach([db |-> d1, saved |-> st.saved, failed |-> st.failed],
                       CompanyJobs(js, name), gc.id, now)
    IN [s2 EXCEPT !.db = mark_stale_jobs_as_closed(s2.db, gc.id, now)]

RECURSIVE ProcessCompanies(_, _, _, _)
ProcessCompanies(st, order, js, now) ==
    IF order = <<>> THEN st
    ELSE ProcessCompanies(ProcessCompany(st, Head(order), js, now),
                          Tail(order), js, now)

save_jobs(db, js, now) ==
    ProcessCompanies([db |-> db, saved |-> 0, failed |-> FailedNoCompany(js)],
                     CompanyOrder(js, <<>>), js, now)

\* ------------------------------------------------------------------------
\* db_manager.py, status_tracking.py : the same calls when one statement
\* raises sqlite3.Error.  Every method commits its own statement, and its
\* except branch rolls back what is not committed yet.
\* ------------------------------------------------------------------------
NoFault == [company |-> 0, point |-> "none", k |-> 0, n |-> 0]

\* the statements that can raise, by the method that executes them
CompanyFaults == {"get_or_create_company", "mark", "sweep"}
JobFaults == {"save_job.select", "save_job.reactivate", "save_job.last_seen",
              "save_job.insert", "save_job.history", "last_seen"}

\* company: position of the company in jobs_by_company; k: position of the
\* job in company_jobs; n: closures of the sweep committed before the error
Faults ==
    {[company |-> c, point |-> pt, k |-> 0, n |-> n] :
        c \in 1..2, pt \in CompanyFaults, n \in 0..1}
    \cup {[company |-> c, point |-> pt, k |-> k, n |-> 0] :
            c \in 1..2, pt \in JobFaults, k \in 1..2}

\* save_job with its except branch: returns the database, the boolean result
\* and whether the statement named by point raised
save_job_f(db, job_data, company_id, now, point) ==
    IF job_data.job_id = ""
    THEN [db |-> db, ok |-> FALSE, fired |-> FALSE]
    ELSE IF point = "save_job.select"
    THEN [db |-> db, ok |-> FALSE, fired |-> TRUE]
    ELSE LET found == FindJob(db.jobs, job_data.job_id, company_id) IN
         IF found # {}
         THEN LET id == CHOOSE i \in found : TRUE
                  closed == db.jobs[id].status = "closed"
                  d1 == IF closed THEN reactivate_job(db, id, now) ELSE db
              IN IF closed /\ point = "save_job.reactivate"
                 THEN [db |-> db, ok |-> FALSE, fired |-> TRUE]
                 ELSE IF point = "save_job.last_seen"
                 THEN [db |-> d1, ok |-> FALSE, fired |-> TRUE]
                 ELSE [db |-> update_job_last_seen(d1, job_data.job_id,
                                                   company_id, now),
                       ok |-> TRUE, fired |-> FALSE]
         ELSE LET row == [job_id |-> job_data.job_id, company_id |-> company_id,
                          status |-> "active", last_seen |-> now,
                          missed_scrapes |-> 0]
                  d1 == [db EXCEPT !.jobs = Append(@, row)]
              IN IF point = "save_job.insert"
                 THEN [db |-> db, ok |-> FALSE, fired |-> TRUE]
                 ELSE IF point = "save_job.history"
                 THEN [db |-> d1, ok |-> FALSE, fired |-> TRUE]
                 ELSE [db |-> update_job_status(d1, Len(d1.jobs), "active",
                                                "Initial posting", now),
                       ok |-> TRUE, fired |-> FALSE]

\* inner loop of save_jobs; st = [db, saved, failed, fired]
RECURSIVE SaveEachF(_, _, _, _, _, _)
SaveEachF(st, company_jobs, company_id, now, f, idx) ==
    IF company_jobs = <<>> THEN st
    ELSE LET pt == IF f.k = idx THEN f.point ELSE "none"
             r == save_job_f(st.db, Head(company_jobs), company_id, now, pt)
         IN SaveEachF(
              IF r.ok
              THEN IF pt = "last_seen"
                   THEN [db |-> r.db, saved |-> st.saved + 1,
                         failed |-> st.failed + 1, fired |-> TRUE]
                   ELSE [db |-> update_job_last_seen(r.db, Head(company_jobs).job_id,
                                                     company_id, now),
                         saved |-> st.saved + 1, failed |-> st.failed,
                         fired |-> st.fired]
              ELSE [db |-> r.db, saved |-> st.saved, failed |-> st.failed + 1,
                    fired |-> st.fired \/ r.fired],
              Tail(company_jobs), company_id, now, f, idx + 1)

NumStale(db, company_id) ==
    Cardinality({i \in 1..Len(db.jobs) : IsStale(db.jobs[i], company_id)})

\* the sweep up to the error: n closures are committed, the next statement raises
RECURSIVE CloseStaleUpTo(_, _, _, _, _)
CloseStaleUpTo(db, company_id, now, i, n) ==
    IF i > Len(db.jobs) \/ n = 0 THEN db
    ELSE IF IsStale(db.jobs[i], company_id)
         THEN CloseStaleUpTo(
                update_job_status(db, i, "closed",
                                  "Not found in 2 consecutive scrapes", now),
                company_id, now, i + 1, n - 1)
         ELSE CloseStaleUpTo(db, company_id, now, i + 1, n)

\* body of the per-company loop of save_jobs with its except branch
ProcessCompanyF(st, name, js, now, f) ==
    LET company_jobs == CompanyJobs(js, name)
        gc == get_or_create_company(st.db, name)
        d1 == mark_company_jobs_as_missed(gc.db, gc.id)
        s2 == SaveEachF([st EXCEPT !.db = d1], company_jobs, gc.id, now, f, 1)
    IN CASE f.point = "get_or_create_company" ->
              [st EXCEPT !.failed = @ + Len(company_jobs), !.fired = TRUE]
         [] f.point = "mark" ->
              [st EXCEPT !.db = gc.db, !.failed = @ + Len(company_jobs),
                         !.fired = TRUE]
         [] f.point = "sweep" ->
              [s2 EXCEPT !.db = CloseStaleUpTo(s2.db, gc.id, now, 1, f.n),
                         !.failed = @ + Len(company_jobs),
                         !.fired = f.n = 0 \/ f.n < NumStale(s2.db, gc.id)]
         [] OTHER ->
              [s2 EXCEPT !.db = mark_stale_jobs_as_closed(s2.db, gc.id, now)]

RECURSIVE ProcessCompaniesF(_, _, _, _, _, _)
ProcessCompaniesF(st, order, js, now, f, c) ==
    IF order = <<>> THEN st
    ELSE ProcessCompaniesF(
            ProcessCompanyF(st, Head(order), js, now,
                            IF f.company = c THEN f ELSE NoFault),
            Tail(order), js, now, f, c + 1)

\* the fault names a company of the call and, for a statement executed per
\* job, a job of that company
Applies(f, js) ==
    /\ f.company <= Len(CompanyOrder(js, <<>>))
    /\ f.k <= Len(CompanyJobs(js, CompanyOrder(js, <<>>)[f.company]))

save_jobs_f(db, js, now, f) ==
    ProcessCompaniesF([db |-> db, saved |-> 0, failed |-> FailedNoCompany(js),
                       fired |-> FALSE],
                      CompanyOrder(js, <<>>), js, now, f, 1)

\* ------------------------------------------------------------------------
\* Observers recorded with each save_jobs call
\* ------------------------------------------------------------------------
\* job ids listed for a company in one call
ListedIds(js, name) == {js[k].job_id : k \in {k \in 1..Len(js) : js[k].company = name}} \ {""}

RowCompany(cs, row) == cs[row.company_id]

\* the row was listed in the call with argument js
Listed(cs, row, js) == row.job_id \in ListedIds(js, RowCompany(cs, row))

\* the call with argument js processed the row's company
Reconciled(cs, row, js) == RowCompany(cs, row) \in SeqToSet(CompanyOrder(js, <<>>))

NextAbsent(db2, old, js) ==
    [i \in 1..Len(db2.jobs) |->
        IF i > Len(old) THEN 0
        ELSE IF ~Reconciled(db2.companies, db2.jobs[i], js) THEN old[i]
        ELSE IF Listed(db2.companies, db2.jobs[i], js) THEN 0
        ELSE old[i] + 1]

\* Scenario C starts from a target "acme" whose only record is J1, active, never missed
ScenarioCStart ==
    /\ \E i \in 1..Len(companies) : companies[i] = "acme"
    /\ LET cid == CompanyId(companies, "acme")
           rows == {i \in 1..Len(jobs) : jobs[i].company_id = cid}
       IN /\ Cardinality(rows) = 1
          /\ \A i \in rows : /\ jobs[i].job_id = "J1"
                             /\ jobs[i].status = "active"
                             /\ jobs[i].missed_scrapes = 0

NextScenC(js) ==
    IF scenC = 1 /\ js = <<>> THEN 2
    ELSE IF scenC = 2 /\ js = <<J1acme>> THEN 3
    ELSE IF ScenarioCStart /\ js = <<>> THEN 1
    ELSE 0

\* ------------------------------------------------------------------------
\* Lifecycle specification
\* ------------------------------------------------------------------------
InitLife ==
    /\ companies = <<>>
    /\ jobs = <<>>
    /\ history = <<>>
    /\ clock = 1
    /\ lastJobs = <<>>
    /\ ret = [saved |-> 0, failed |-> 0]
    /\ absentRuns = <<>>
    /\ repeated = FALSE
    /\ scenC = 0
    /\ lastFault = NoFault
    /\ faults = 0

SaveJobs(js) ==
    /\ clock <= MaxRuns
    /\ LET r == save_jobs(DB(companies, jobs, history), js, clock) IN
        /\ companies' = r.db.companies
        /\ jobs' = r.db.jobs
        /\ history' = r.db.history
        /\ ret' = [saved |-> r.saved, failed |-> r.failed]
        /\ absentRuns' = NextAbsent(r.db, absentRuns, js)
    /\ clock' = clock + 1
    /\ lastJobs' = js
    /\ repeated' = (clock > 1 /\ js = lastJobs)
    /\ scenC' = NextScenC(js)
    /\ lastFault' = NoFault
    /\ UNCHANGED faults

\* a save_jobs call during which one statement raises a database error
SaveJobsFault(js, f) ==
    /\ clock <= MaxFaultRuns
    /\ faults < MaxFaults
    /\ Applies(f, js)
    /\ LET r == save_jobs_f(DB(companies, jobs, history), js, clock, f) IN
        /\ r.fired
        /\ companies' = r.db.companies
        /\ jobs' = r.db.jobs
        /\ history' = r.db.history
        /\ ret' = [saved |-> r.saved, failed |-> r.failed]
        /\ absentRuns' = NextAbsent(r.db, absentRuns, js)
    /\ clock' = clock + 1
    /\ lastJobs' = js
    /\ repeated' = (clock > 1 /\ js = lastJobs)
    /\ scenC' = 0
    /\ lastFault' = f
    /\ faults' = faults + 1

NextLife == \E js \in JobLists : SaveJobs(js)

\* a database file left by earlier runs (written at time 0): one company whose
\* jobs J1 .. Jn are all in the given status with the given missed_scrapes
SeedRow(id, status, missed) ==
    [job_id |-> id, company_id |-> 1, status |-> status, last_seen |-> 0,
     missed_scrapes |-> missed]

SeedHistory(n, status) ==
    [k \in 1..n |-> [job_id |-> k, status |-> "active", changed_at |-> 0,
                     reason |-> "Initial posting"]]
    \o (IF status = "closed"
        THEN [k \in 1..n |-> [job_id |-> k, status |-> "closed", changed_at |-> 0,
                              reason |-> "Not found in 2 consecutive scrapes"]]
        ELSE <<>>)

SeedIds == <<"J1", "J2">>

Seeds == {[n |-> 0, status |-> "active", missed |-> 0],
          [n |-> 1, status |-> "active", missed |-> 0],
          [n |-> 1, status |-> "active", missed |-> 1],
          [n |-> 1, status |-> "closed", missed |-> 2],
          [n |-> 2, status |-> "active", missed |-> 1]}

InitSeeded ==
    \E sd \in Seeds :
        /\ companies = IF sd.n = 0 THEN <<>> ELSE <<"acme">>
        /\ jobs = [k \in 1..sd.n |-> SeedRow(SeedIds[k], sd.status, sd.missed)]
        /\ history = SeedHistory(sd.n, sd.status)
        /\ absentRuns = [k \in 1..sd.n |-> sd.missed]
        /\ clock = 1
        /\ lastJobs = <<>>
        /\ ret = [saved |-> 0, failed |-> 0]
        /\ repeated = FALSE
        /\ scenC = 0
        /\ lastFault = NoFault
        /\ faults = 0

\* ------------------------------------------------------------------------
\* rate_limiter.py : exact rational arithmetic for the delays
\* ------------------------------------------------------------------------
RECURSIVE GCD(_, _)
GCD(a, b) == IF b = 0 THEN a ELSE GCD(b, a % b)

\* the fraction n/d in lowest terms (n >= 0, d > 0)
Rat(n, d) == LET g == GCD(n, d) IN [n |-> n \div g, d |-> d \div g]

RAdd(a, b) == Rat(a.n * b.d + b.n * a.d, a.d * b.d)
\* a - b for a >= b
RSub(a, b) == Rat(a.n * b.d - b.n * a.d, a.d * b.d)
RMul(a, b) == Rat(a.n * b.n, a.d * b.d)
RDiv(a, b) == Rat(a.n * b.d, a.d * b.n)
RLeq(a, b) == a.n * b.d <= b.n * a.d
RLess(a, b) == a.n * b.d < b.n * a.d
RMin(a, b) == IF RLeq(a, b) THEN a ELSE b
RMax(a, b) == IF RLeq(b, a) THEN a ELSE b

RECURSIVE RPow(_, _)
RPow(a, k) == IF k = 0 THEN Rat(1, 1) ELSE RMul(a, RPow(a, k - 1))

\* ------------------------------------------------------------------------
\* rate_limiter.py : AdaptiveRateLimiter
\* ------------------------------------------------------------------------
Domains == {"a.example", "b.example"}
ErrorTypes == {"none", "rate_limit", "timeout"}

success_threshold == 10
DecreaseFactor == Rat(6, 5)          \* current_delay / 1.2
RateLimitMultiplier == Rat(3, 1)     \* multiplier = 3.0
TimeoutMultiplier == Rat(2, 1)       \* multiplier = 2.0
MaxExponent == 3                     \* min(self.failure_count, 3)

\* DomainRateLimiter() as the program builds it, and other settings its
\* constructor takes with min_delay <= initial_delay <= max_delay and a
\* backoff factor of at least 1
DefaultSettings ==
    [initial |-> Rat(1, 1), min |-> Rat(1, 2), max |-> Rat(30, 1), backoff |-> Rat(3, 2)]

Settings ==
    {DefaultSettings,
     [initial |-> Rat(1, 2), min |-> Rat(1, 2), max |-> Rat(30, 1), backoff |-> Rat(1, 1)],
     [initial |-> Rat(3, 1), min |-> Rat(1, 1), max |-> Rat(3, 1), backoff |-> Rat(2, 1)]}

NoLimiter == [absent |-> TRUE]

\* AdaptiveRateLimiter.__init__
AdaptiveRateLimiter(initial_delay, min_delay, max_delay, backoff_factor) ==
    [current_delay |-> initial_delay, min_delay |-> min_delay,
     max_delay |-> max_delay, backoff_factor |-> backoff_factor,
     success_threshold |-> success_threshold,
     success_count |-> 0, failure_count |-> 0,
     last_request_time |-> 0, total_requests |-> 0, total_wait_time |-> Rat(0, 1)]

\* variant: wait never sleeps
wait_time_NoSleep(l, now) == Rat(0, 1)

\* AdaptiveRateLimiter.wait: the time it sleeps when it is entered at time now
wait_time(l, now) ==
    LET elapsed == Rat(now - l.last_request_time, 1) IN
    IF RLess(elapsed, l.current_delay) THEN RSub(l.current_delay, elapsed)
    ELSE Rat(0, 1)

\* AdaptiveRateLimiter.wait: the bookkeeping after the sleep, which ends at time now
wait(l, now, slept) ==
    [l EXCEPT !.last_request_time = now,
              !.total_requests = @ + 1,
              !.total_wait_time = RAdd(@, slept)]

\* AdaptiveRateLimiter.success
success(l) ==
    LET sc == l.success_count + 1 IN
    IF sc >= l.success_threshold
    THEN [l EXCEPT !.failure_count = 0,
                   !.current_delay = RMax(RDiv(l.current_delay, DecreaseFactor), l.min_delay),
                   !.success_count = 0]
    ELSE [l EXCEPT !.failure_count = 0, !.success_count = sc]

\* variant: the error type is ignored
multiplier_Generic(l, error_type) == l.backoff_factor

\* multiplier = 3.0, 2.0 or self.backoff_factor
multiplier(l, error_type) ==
    IF error_type = "rate_limit" THEN RateLimitMultiplier
    ELSE IF error_type = "timeout" THEN TimeoutMultiplier
    ELSE l.backoff_factor

\* variant: the increased delay is not clamped to max_delay
failure_NoClamp(l, error_type) ==
    LET fc == l.failure_count + 1
        failure_multiplier == RPow(multiplier(l, error_type), Min(fc, MaxExponent))
    IN [l EXCEPT !.failure_count = fc,
                 !.success_count = 0,
                 !.current_delay = RMul(l.current_delay, failure_multiplier)]

\* variant: the increased delay is clamped with min_delay instead of max_delay
failure_ClampMin(l, error_type) ==
    LET fc == l.failure_count + 1
        failure_multiplier == RPow(multiplier(l, error_type), Min(fc, MaxExponent))
    IN [l EXCEPT !.failure_count = fc,
                 !.success_count = 0,
                 !.current_delay = RMin(RMul(l.current_delay, failure_multiplier),
                                        l.min_delay)]

\* variant: a failure does not reset the success counter
failure_KeepSuccesses(l, error_type) ==
    LET fc == l.failure_count + 1
        failure_multiplier == RPow(multiplier(l, error_type), Min(fc, MaxExponent))
    IN [l EXCEPT !.failure_count = fc,
                 !.current_delay = RMin(RMul(l.current_delay, failure_multiplier),
                                        l.max_delay)]

\* AdaptiveRateLimiter.failure
failure(l, error_type) ==
    LET fc == l.failure_count + 1
        failure_multiplier == RPow(multiplier(l, error_type), Min(fc, MaxExponent))
    IN [l EXCEPT !.failure_count = fc,
                 !.success_count = 0,
                 !.current_delay = RMin(RMul(l.current_delay, failure_multiplier),
                                        l.max_delay)]

\* ------------------------------------------------------------------------
\* rate_limiter.py : DomainRateLimiter
\* ------------------------------------------------------------------------
get_limiter(lims, defaults, domain) ==
    IF lims[domain] = NoLimiter
    THEN AdaptiveRateLimiter(defaults.initial, defaults.min, defaults.max,
                             defaults.backoff)
    ELSE lims[domain]

InitRL ==
    /\ rlDefaults \in Settings
    /\ limiters = [d \in Domains |-> NoLimiter]
    /\ rlCalls = 0
    /\ rlLast = [op |-> "none", domain |-> "", error_type |-> "none"]
    /\ streak = [d \in Domains |-> 0]

\* DomainRateLimiter.success(domain)
Success(domain) ==
    /\ rlCalls < MaxCalls
    /\ limiters' = [limiters EXCEPT
                      ![domain] = success(get_limiter(limiters, rlDefaults, domain))]
    /\ rlCalls' = rlCalls + 1
    /\ rlLast' = [op |-> "success", domain |-> domain, error_type |-> "none"]
    /\ streak' = [streak EXCEPT ![domain] = @ + 1]
    /\ UNCHANGED rlDefaults

\* DomainRateLimiter.failure(domain, error_type)
Failure(domain, error_type) ==
    /\ rlCalls < MaxCalls
    /\ limiters' = [limiters EXCEPT
                      ![domain] = failure(get_limiter(limiters, rlDefaults, domain),
                                          error_type)]
    /\ rlCalls' = rlCalls + 1
    /\ rlLast' = [op |-> "failure", domain |-> domain, error_type |-> error_type]
    /\ streak' = [streak EXCEPT ![domain] = 0]
    /\ UNCHANGED rlDefaults

\* ------------------------------------------------------------------------
\* rate_limiter.py : threads calling domain_rate_limiter concurrently
\* ------------------------------------------------------------------------
Threads == 1..2
ThreadOps == {"wait", "success", "failure"}

\* time.time() when the program starts: later than any delay after time 0,
\* the initial last_request_time
Epoch == 100

Idle(calls) ==
    [pc |-> "idle", op |-> "none", domain |-> "", error_type |-> "none",
     absent |-> FALSE, l |-> NoLimiter, now |-> 0, wait_time |-> Rat(0, 1),
     pending |-> {}, calls |-> calls]

NoReturn == [n |-> 0, at |-> 0, entered |-> 0, value |-> Rat(0, 1), by |-> 0]

NoThreads ==
    /\ time = Epoch
    /\ regLock = 0
    /\ lock = [d \in Domains |-> 0]
    /\ thr = [t \in Threads |-> Idle(0)]
    /\ created = [d \in Domains |-> 0]
    /\ lockOrder = [d \in Domains |-> <<>>]
    /\ returned = [d \in Domains |-> NoReturn]

\* the calls made on one domain, by one thread at time Epoch, before the
\* threads start
EarlierCalls ==
    {<<>>,
     <<[op |-> "wait", error_type |-> "none"]>>,
     <<[op |-> "wait", error_type |-> "none"], [op |-> "failure", error_type |-> "none"]>>}

\* one call made by one thread at time Epoch
Sequential(l, c) ==
    CASE c.op = "wait" -> wait(l, Epoch, wait_time(l, Epoch))
      [] c.op = "success" -> success(l)
      [] c.op = "failure" -> failure(l, c.error_type)

RECURSIVE SequentialAll(_, _)
SequentialAll(l, calls) ==
    IF calls = <<>> THEN l
    ELSE SequentialAll(Sequential(l, Head(calls)), Tail(calls))

StartThreads(T) ==
    \E domain \in Domains, calls \in EarlierCalls :
        /\ rlDefaults = DefaultSettings
        /\ limiters = [d \in Domains |->
                          IF d = domain /\ calls # <<>>
                          THEN SequentialAll(get_limiter([e \in Domains |-> NoLimiter],
                                                         rlDefaults, d), calls)
                          ELSE NoLimiter]
        /\ rlCalls = 0
        /\ rlLast = [op |-> "none", domain |-> "", error_type |-> "none"]
        /\ streak = [d \in Domains |-> 0]
        /\ time = Epoch
        /\ regLock = 0
        /\ lock = [d \in Domains |-> 0]
        /\ thr = [t \in T |-> Idle(0)]
        /\ created = [d \in Domains |-> IF d = domain /\ calls # <<>> THEN 1 ELSE 0]
        /\ lockOrder = [d \in Domains |-> IF d = domain THEN calls ELSE <<>>]
        /\ returned = [d \in Domains |->
                          IF d = domain /\ calls # <<>>
                          THEN [n |-> 1, at |-> Epoch, entered |-> Epoch,
                                value |-> Rat(0, 1), by |-> 0]
                          ELSE NoReturn]

InitThreads == StartThreads(Threads)

\* variant: the lock admits a thread while another thread holds it
Unlocked_Always(holder) == TRUE

\* threading.Lock: `with self.lock` is entered when no thread holds the lock
Unlocked(holder) ==
    holder = 0

\* a thread calls domain_rate_limiter.wait / success / failure, which calls
\* DomainRateLimiter.get_limiter: `with self.lock` and the membership test
Call(t, op, domain, error_type) ==
    /\ thr[t].pc = "idle"
    /\ thr[t].calls < MaxThreadCalls
    /\ Unlocked(regLock)
    /\ regLock' = t
    /\ thr' = [thr EXCEPT ![t] = [@ EXCEPT !.pc = "registry", !.op = op,
                                           !.domain = domain,
                                           !.error_type = error_type,
                                           !.absent = (limiters[domain] = NoLimiter)]]
    /\ UNCHANGED <<time, lock, created, lockOrder, returned, rlVars>>

\* DomainRateLimiter.get_limiter: the insertion, the return and the release
LeaveRegistry(t) ==
    LET domain == thr[t].domain IN
    /\ thr[t].pc = "registry"
    /\ IF thr[t].absent
       THEN /\ limiters' = [limiters EXCEPT ![domain] =
                               AdaptiveRateLimiter(rlDefaults.initial, rlDefaults.min,
                                                   rlDefaults.max, rlDefaults.backoff)]
            /\ created' = [created EXCEPT ![domain] = @ + 1]
       ELSE UNCHANGED <<limiters, created>>
    /\ regLock' = 0
    /\ thr' = [thr EXCEPT ![t] = [@ EXCEPT !.pc = "lock", !.absent = FALSE]]
    /\ UNCHANGED <<time, lock, lockOrder, returned, rlDefaults, rlCalls, rlLast, streak>>

\* AdaptiveRateLimiter.wait / success / failure: `with self.lock` and the
\* reads of the limiter's fields (for wait, also of the clock)
EnterLimiter(t) ==
    LET domain == thr[t].domain IN
    /\ thr[t].pc = "lock"
    /\ Unlocked(lock[domain])
    /\ lock' = [lock EXCEPT ![domain] = t]
    /\ lockOrder' = [lockOrder EXCEPT ![domain] =
                    Append(@, [op |-> thr[t].op, error_type |-> thr[t].error_type])]
    /\ thr' = [thr EXCEPT ![t] =
                  IF @.op = "wait"
                  THEN [@ EXCEPT !.pc = "sleep", !.now = time,
                                 !.wait_time = wait_time(limiters[domain], time)]
                  ELSE [@ EXCEPT !.pc = "update", !.l = limiters[domain]]]
    /\ UNCHANGED <<time, regLock, created, returned, rlVars>>

\* AdaptiveRateLimiter.success / failure: the writes, the return and the release
Update(t) ==
    LET domain == thr[t].domain IN
    /\ thr[t].pc = "update"
    /\ limiters' = [limiters EXCEPT ![domain] =
                       IF thr[t].op = "success" THEN success(thr[t].l)
                       ELSE failure(thr[t].l, thr[t].error_type)]
    /\ lock' = [lock EXCEPT ![domain] = 0]
    /\ thr' = [thr EXCEPT ![t] = Idle(@.calls + 1)]
    /\ UNCHANGED <<time, regLock, created, lockOrder, returned,
                   rlDefaults, rlCalls, rlLast, streak>>

\* AdaptiveRateLimiter.wait: time.sleep(wait_time) ends, no earlier than asked;
\* the bookkeeping, the return of wait_time and the release
Wake(t) ==
    LET domain == thr[t].domain IN
    /\ thr[t].pc = "sleep"
    /\ RLeq(thr[t].wait_time, Rat(time - thr[t].now, 1))
    /\ limiters' = [limiters EXCEPT ![domain] = wait(@, time, thr[t].wait_time)]
    /\ lock' = [lock EXCEPT ![domain] = 0]
    /\ returned' = [returned EXCEPT ![domain] =
                       [n |-> @.n + 1, at |-> time, entered |-> thr[t].now,
                        value |-> thr[t].wait_time, by |-> t]]
    /\ thr' = [thr EXCEPT ![t] = Idle(@.calls + 1)]
    /\ UNCHANGED <<time, regLock, created, lockOrder, rlDefaults, rlCalls, rlLast, streak>>

\* the worker threads and a thread that reads the statistics
Monitor == 3
Callers == Threads \cup {Monitor}

InitCallers == StartThreads(Callers)

\* DomainRateLimiter.get_stats: `with self.lock`, the comprehension over
\* self.limiters.items() begins
GetStats(t) ==
    /\ thr[t].pc = "idle"
    /\ thr[t].calls < MaxThreadCalls
    /\ Unlocked(regLock)
    /\ regLock' = t
    /\ thr' = [thr EXCEPT ![t] = [@ EXCEPT !.pc = "stats", !.op = "get_stats",
                                           !.pending = {d \in Domains :
                                                           limiters[d] # NoLimiter}]]
    /\ UNCHANGED <<time, lock, created, lockOrder, returned, rlVars>>

\* DomainRateLimiter.get_stats: limiter.get_stats() of one domain, which
\* takes that limiter's lock, reads its fields and releases the lock. The
\* registry's lock is held meanwhile
StatsRead(t, domain) ==
    /\ thr[t].pc = "stats"
    /\ domain \in thr[t].pending
    /\ Unlocked(lock[domain])
    /\ thr' = [thr EXCEPT ![t] = [@ EXCEPT !.pending = @ \ {domain}]]
    /\ UNCHANGED <<time, regLock, lock, created, lockOrder, returned, rlVars>>

\* DomainRateLimiter.get_stats: the dictionary is returned, the lock released
StatsDone(t) ==
    /\ thr[t].pc = "stats"
    /\ thr[t].pending = {}
    /\ regLock' = 0
    /\ thr' = [thr EXCEPT ![t] = Idle(@.calls + 1)]
    /\ UNCHANGED <<time, lock, created, lockOrder, returned, rlVars>>

\* a second passes
Tick ==
    /\ time < Epoch + MaxTicks
    /\ time' = time + 1
    /\ UNCHANGED <<regLock, lock, thr, created, lockOrder, returned, rlVars>>

\* ------------------------------------------------------------------------
\* jsonld_extractor.py : get_all_job_urls, the listings it walks
\* ------------------------------------------------------------------------
Urls == 1..MaxUrl

RECURSIVE SortedSeq(_)
SortedSeq(S) ==
    IF S = {} THEN <<>>
    ELSE LET m == CHOOSE x \in S : \A y \in S : x <= y
         IN <<m>> \o SortedSeq(S \ {m})

\* a rendered page shows at least one listing (wait_for_selector has matched)
Pages == {SortedSeq(S) : S \in (SUBSET Urls) \ {{}}}

Sites == UNION {[1..k -> Pages] : k \in 1..MaxSitePages}

Range(a, b) == [i \in 1..(b - a + 1) |-> a + i - 1]

RECURSIVE Flatten(_)
Flatten(pages) == IF pages = <<>> THEN <<>> ELSE Head(pages) \o Flatten(Tail(pages))

\* Scenario A: label "1 - 20 of 45 jobs", pages of 20, 20 and 5 listings
ScenarioAPages == <<Range(1, 20), Range(21, 40), Range(41, 45)>>
ScenarioATotal == Len(Flatten(ScenarioAPages))
ScenarioATitles == Len(ScenarioAPages[1])

\* a listing of three pages that all show the same posting: what the
\* re-walk with more results per page sees when its clicks on the next-page
\* control do not change the rows shown
RepeatingPages == <<<<1>>, <<1>>, <<1>>>>

\* the page shown after k - 1 clicks on the next-page control
PageAt(pages, k) == pages[Min(k, Len(pages))]

\* a next-page control is found on the page shown after k - 1 clicks
NextFound(pages, sticky, k) == k < Len(pages) \/ sticky

\* ------------------------------------------------------------------------
\* jsonld_extractor.py : get_all_job_urls
\* ------------------------------------------------------------------------
default_jobs_per_page == 20
page_safety_limit == 100
approach2_page_limit == 5

jobs_per_page(titles) == IF titles = 0 THEN default_jobs_per_page ELSE titles

\* expected_pages with the division rounding down
ExpectedPages_Floor(total, titles) ==
    IF total # 0 THEN total \div jobs_per_page(titles) ELSE 0

\* expected_pages, 0 standing for None
ExpectedPages(total, titles) ==
    IF total # 0
    THEN (total + jobs_per_page(titles) - 1) \div jobs_per_page(titles)
    ELSE 0

\* variant: twice the safety limit when the number of pages is not known
MaxPages_Doubled(ep) ==
    IF ep # 0 THEN Min(ep + 1, page_safety_limit) ELSE 2 * page_safety_limit

\* max_pages = 100, or min(expected_pages + 1, max_pages)
MaxPages(ep) ==
    IF ep # 0 THEN Min(ep + 1, page_safety_limit) ELSE page_safety_limit

\* len(job_urls) < expected_total_jobs * 0.9
MissingOverTenPercent(urls, total) == 10 * Len(urls) < 9 * total

\* the final loop: remove duplicates while preserving order
RECURSIVE Dedupe(_, _)
Dedupe(urls, seen) ==
    IF urls = <<>> THEN <<>>
    ELSE IF Head(urls) \in seen THEN Dedupe(Tail(urls), seen)
         ELSE <<Head(urls)>> \o Dedupe(Tail(urls), seen \cup {Head(urls)})

\* list(set(...)): the elements once each, in an order the hashing decides
ListsOfSet(S) ==
    {q \in [1..Cardinality(S) -> S] : \A i, j \in 1..Cardinality(S) : q[i] = q[j] => i = j}

WalkIdle ==
    /\ job_urls = <<>> /\ page_num = 1 /\ has_next_page = TRUE
    /\ expected_pages = ExpectedPages(wTotal, wTitles)
    /\ max_pages = MaxPages(ExpectedPages(wTotal, wTitles))
    /\ alt_job_urls = <<>> /\ alt_page_num = 1 /\ alt_has_next_page = TRUE
    /\ approach2_urls = <<>> /\ approach2_page_num = 1
    /\ approach2_has_next_page = TRUE
    /\ unique_urls = <<>> /\ kept = <<>> /\ fallbacks = {}

\* the state when the first page has rendered and the label has been read
InitWalk ==
    /\ \/ /\ wPages \in Sites
          /\ wSticky = FALSE
          /\ wTotal \in 0..MaxTotal
          /\ wTitles \in {0, Len(wPages[1])}
          /\ wAlt \in {<<>>, wPages, <<Flatten(wPages)>>}
          /\ wSite2 \in {<<>>} \cup {<<pg>> : pg \in Pages}
       \/ /\ wPages \in Sites
          /\ wSticky = TRUE
          /\ wTotal \in 1..MaxTotal
          /\ wTitles = Len(wPages[1])
          /\ wAlt \in {<<>>, <<Flatten(wPages)>>}
          /\ wSite2 \in {<<>>, <<wPages[1]>>}
       \/ /\ wPages = <<<<1>>>>
          /\ wSticky = TRUE
          /\ wTotal = 0
          /\ wTitles = 1
          /\ wAlt = <<>>
          /\ wSite2 = <<>>
       \/ /\ wPages \in Sites
          /\ wSticky = FALSE
          /\ wTotal \in 1..MaxTotal
          /\ wTitles = Len(wPages[1])
          /\ wAlt = RepeatingPages
          /\ wSite2 = <<>>
       \/ /\ wPages = ScenarioAPages
          /\ wSticky \in BOOLEAN
          /\ wTotal = ScenarioATotal
          /\ wTitles = ScenarioATitles
          /\ wAlt \in {<<>>, <<Flatten(wPages)>>}
          /\ wSite2 \in {<<>>, <<wPages[1]>>}
    /\ wpc = "walk"
    /\ WalkIdle

WalkFrame == UNCHANGED <<wPages, wSticky, wTotal, wTitles, wAlt, wSite2,
                         expected_pages, max_pages>>

\* one iteration of the main loop
WalkPage ==
    /\ wpc = "walk"
    /\ has_next_page /\ page_num <= max_pages
    /\ job_urls' = job_urls \o PageAt(wPages, page_num)
    /\ IF NextFound(wPages, wSticky, page_num)
       THEN page_num' = page_num + 1 /\ UNCHANGED has_next_page
       ELSE has_next_page' = FALSE /\ UNCHANGED page_num
    /\ UNCHANGED <<wpc, alt_job_urls, alt_page_num, alt_has_next_page,
                   approach2_urls, approach2_page_num, approach2_has_next_page,
                   unique_urls, kept, fallbacks>>
    /\ WalkFrame

\* "Verify we got all jobs": decide whether the alternative approaches run
Verify ==
    /\ wpc = "walk"
    /\ ~(has_next_page /\ page_num <= max_pages)
    /\ kept' = job_urls
    /\ IF wTotal # 0 /\ Len(job_urls) < wTotal
          /\ MissingOverTenPercent(job_urls, wTotal)
       THEN IF wAlt # <<>>
            THEN wpc' = "alt_walk" /\ fallbacks' = fallbacks \cup {"approach1"}
            ELSE wpc' = "approach2" /\ UNCHANGED fallbacks
       ELSE wpc' = "dedupe" /\ UNCHANGED fallbacks
    /\ UNCHANGED <<job_urls, page_num, has_next_page,
                   alt_job_urls, alt_page_num, alt_has_next_page,
                   approach2_urls, approach2_page_num, approach2_has_next_page,
                   unique_urls>>
    /\ WalkFrame

\* one iteration of the loop of approach 1
AltWalkPage ==
    /\ wpc = "alt_walk"
    /\ alt_has_next_page /\ alt_page_num <= max_pages
    /\ alt_job_urls' = alt_job_urls \o PageAt(wAlt, alt_page_num)
    /\ IF NextFound(wAlt, wSticky, alt_page_num)
       THEN alt_page_num' = alt_page_num + 1 /\ UNCHANGED alt_has_next_page
       ELSE alt_has_next_page' = FALSE /\ UNCHANGED alt_page_num
    /\ UNCHANGED <<wpc, job_urls, page_num, has_next_page,
                   approach2_urls, approach2_page_num, approach2_has_next_page,
                   unique_urls, kept, fallbacks>>
    /\ WalkFrame

\* end of approach 1: the longer list wins
AltDone ==
    /\ wpc = "alt_walk"
    /\ ~(alt_has_next_page /\ alt_page_num <= max_pages)
    /\ IF Len(alt_job_urls) > Len(job_urls)
       THEN job_urls' = alt_job_urls /\ kept' = alt_job_urls
       ELSE UNCHANGED <<job_urls, kept>>
    /\ wpc' = "approach2"
    /\ UNCHANGED <<page_num, has_next_page,
                   alt_job_urls, alt_page_num, alt_has_next_page,
                   approach2_urls, approach2_page_num, approach2_has_next_page,
                   unique_urls, fallbacks>>
    /\ WalkFrame

\* "Approach 2: Try a different URL format if still missing jobs"
Approach2Start ==
    /\ wpc = "approach2"
    /\ IF wTotal # 0 /\ MissingOverTenPercent(job_urls, wTotal) /\ wSite2 # <<>>
       THEN wpc' = "walk2" /\ fallbacks' = fallbacks \cup {"approach2"}
       ELSE wpc' = "dedupe" /\ UNCHANGED fallbacks
    /\ UNCHANGED <<job_urls, page_num, has_next_page,
                   alt_job_urls, alt_page_num, alt_has_next_page,
                   approach2_urls, approach2_page_num, approach2_has_next_page,
                   unique_urls, kept>>
    /\ WalkFrame

\* one iteration of the loop of approach 2
Walk2Page ==
    /\ wpc = "walk2"
    /\ approach2_has_next_page /\ approach2_page_num <= approach2_page_limit
    /\ approach2_urls' = approach2_urls \o PageAt(wSite2, approach2_page_num)
    /\ IF NextFound(wSite2, wSticky, approach2_page_num)
       THEN approach2_page_num' = approach2_page_num + 1
            /\ UNCHANGED approach2_has_next_page
       ELSE approach2_has_next_page' = FALSE /\ UNCHANGED approach2_page_num
    /\ UNCHANGED <<wpc, job_urls, page_num, has_next_page,
                   alt_job_urls, alt_page_num, alt_has_next_page,
                   unique_urls, kept, fallbacks>>
    /\ WalkFrame

\* end of approach 2: combined_urls = list(set(job_urls + approach2_urls))
Walk2Done ==
    /\ wpc = "walk2"
    /\ ~(approach2_has_next_page /\ approach2_page_num <= approach2_page_limit)
    /\ \E combined_urls \in ListsOfSet(SeqToSet(job_urls \o approach2_urls)) :
          IF Len(combined_urls) > Len(job_urls)
          THEN job_urls' = combined_urls /\ kept' = kept \o approach2_urls
          ELSE UNCHANGED <<job_urls, kept>>
    /\ wpc' = "dedupe"
    /\ UNCHANGED <<page_num, has_next_page,
                   alt_job_urls, alt_page_num, alt_has_next_page,
                   approach2_urls, approach2_page_num, approach2_has_next_page,
                   unique_urls, fallbacks>>
    /\ WalkFrame

\* the listing does not render within the timeout: the main loop raises,
\* the alternative approaches log the error and give up their walk
RenderTimeout ==
    /\ \/ wpc = "walk" /\ has_next_page /\ page_num <= max_pages /\ wpc' = "raised"
       \/ wpc = "alt_walk" /\ wpc' = "approach2"
       \/ wpc = "walk2" /\ wpc' = "dedupe"
    /\ UNCHANGED <<job_urls, page_num, has_next_page,
                   alt_job_urls, alt_page_num, alt_has_next_page,
                   approach2_urls, approach2_page_num, approach2_has_next_page,
                   unique_urls, kept, fallbacks>>
    /\ WalkFrame

\* "Remove duplicates while preserving order" and return
Return ==
    /\ wpc = "dedupe"
    /\ unique_urls' = Dedupe(job_urls, {})
    /\ wpc' = "done"
    /\ UNCHANGED <<job_urls, page_num, has_next_page,
                   alt_job_urls, alt_page_num, alt_has_next_page,
                   approach2_urls, approach2_page_num, approach2_has_next_page,
                   kept, fallbacks>>
    /\ WalkFrame

\* no walk in progress
NoWalk ==
    /\ wPages = <<<<1>>>> /\ wSticky = FALSE /\ wTotal = 0 /\ wTitles = 1
    /\ wAlt = <<>> /\ wSite2 = <<>>
    /\ wpc = "idle"
    /\ WalkIdle

\* ------------------------------------------------------------------------
\* jsonld_extractor.py : extract_job_details_from_jsonld
\* ------------------------------------------------------------------------
batch_size == 50
fallback_limit == 50

\* length of a URL list that takes a second batch, of two URLs
TwoBatches == batch_size + 2

\* job_urls[i:i+batch_size]
Batch(urls, i) == {u \in SeqToSet(urls) : i <= u /\ u < i + batch_size}

\* a call not yet started; backoff_time is the last backoff the call slept
NewTask == [st |-> "pending", retry_count |-> 0, backoff_time |-> 0]

\* the semaphore together with the calls it blocks or lets through
Sem == [value |-> semaphore, waiters |-> waiters, task |-> task]

\* variant: async with semaphore lets every call through
Acquire_Unbounded(sem, u, r) ==
    [sem EXCEPT !.value = @ - 1,
                !.task[u].st = "holding", !.task[u].retry_count = r]

\* async with semaphore, entered by the call for u at retry level r
Acquire(sem, u, r) ==
    IF sem.value > 0 /\ sem.waiters = <<>>
    THEN [sem EXCEPT !.value = @ - 1,
                     !.task[u].st = "holding", !.task[u].retry_count = r]
    ELSE [sem EXCEPT !.waiters = Append(@, u),
                     !.task[u].st = "waiting", !.task[u].retry_count = r]

\* k permits are given back; each one goes to the longest waiting call
RECURSIVE Release(_, _)
Release(sem, k) ==
    IF k = 0 THEN sem
    ELSE IF sem.waiters # <<>>
         THEN Release([sem EXCEPT !.waiters = Tail(@),
                                  !.task[Head(sem.waiters)].st = "holding"], k - 1)
         ELSE Release([sem EXCEPT !.value = @ + 1], k - 1)

\* the permits the nested calls for u hold
Held(t) ==
    CASE t.st = "holding" -> t.retry_count + 1
      [] t.st = "backoff" -> t.retry_count + 1
      [] t.st = "waiting" -> t.retry_count
      [] OTHER -> 0

Without(q, u) == SelectSeq(q, LAMBDA x : x # u)

\* the call for u returns: every enclosing async with block is left
Leave(sem, u) ==
    Release([sem EXCEPT !.waiters = Without(@, u),
                        !.task[u].st = "returned"], Held(sem.task[u]))

\* tasks = [fetch_and_extract(url) for url in batch], started in list order
RECURSIVE StartAll(_, _)
StartAll(sem, us) ==
    IF us = <<>> THEN sem
    ELSE LET started == Acquire(sem, Head(us), 0)
         IN \* the test is always true: it has `started` computed before the
            \* next call is started
            IF started.task[Head(us)].st # "pending"
            THEN StartAll(started, Tail(us))
            ELSE sem

\* failed_urls and len(failed_urls) > len(job_urls) * 0.10
SignificantFailures(failed, urls) ==
    failed # <<>> /\ 10 * Len(failed) > Len(urls)

\* the sub-lists of q: the URLs the browser fallback recovers, in list order
SubLists(q) == {SelectSeq(q, LAMBDA x : x \in S) : S \in SUBSET SeqToSet(q)}

NoFetch ==
    /\ fJobUrls = <<>> /\ fBad = {} /\ fOnce = {}
    /\ concurrency = 1 /\ max_retries = 0
    /\ fpc = "idle" /\ batch_start = 1
    /\ task = << >> /\ result = << >>
    /\ semaphore = 1 /\ waiters = <<>>
    /\ failed_urls = <<>> /\ all_results = <<>> /\ valid_results = <<>>
    /\ processed_count = 0 /\ urls_to_process = <<>>
    /\ fallback_invoked = FALSE

\* the state before the first batch
InitFetch ==
    /\ \E n \in (0..MaxFetchUrls) \cup {ManyUrls, TwoBatches} : fJobUrls = Range(1, n)
    /\ fBad \in SUBSET (1..Min(Len(fJobUrls), MaxFetchUrls))
    /\ fOnce \in SUBSET ((1..Min(Len(fJobUrls), MaxFetchUrls)) \ fBad)
    /\ Cardinality(fBad \cup fOnce) <= MaxFailing
    /\ concurrency \in 1..MaxConcurrency
    /\ max_retries \in 0..MaxRetries
    \* the lists of more than one batch come with every request answered and
    \* one permit for each URL of the last batch
    /\ Len(fJobUrls) > batch_size =>
          /\ fBad = {} /\ fOnce = {}
          /\ concurrency = Len(fJobUrls) - batch_size /\ max_retries = 0
    /\ fpc = "loop" /\ batch_start = 1
    /\ task = [u \in SeqToSet(fJobUrls) |-> NewTask]
    /\ result = [u \in SeqToSet(fJobUrls) |-> "none"]
    /\ semaphore = concurrency /\ waiters = <<>>
    /\ failed_urls = <<>> /\ all_results = <<>> /\ valid_results = <<>>
    /\ processed_count = 0 /\ urls_to_process = <<>>
    /\ fallback_invoked = FALSE

FetchFrame == UNCHANGED <<fJobUrls, fBad, fOnce, concurrency, max_retries>>

\* the request for u made at retry level r fails
Fails(u, r) == u \in fBad \/ (u \in fOnce /\ r = 0)

SetSem(sem) ==
    /\ semaphore' = sem.value
    /\ waiters' = sem.waiters
    /\ task' = sem.task

\* the loop starts the fetches of the next batch
StartBatch ==
    /\ fpc = "loop"
    /\ batch_start <= Len(fJobUrls)
    /\ SetSem(StartAll(Sem, SortedSeq(Batch(fJobUrls, batch_start))))
    /\ fpc' = "gather"
    /\ UNCHANGED <<batch_start, result, failed_urls, all_results, valid_results,
                   processed_count, urls_to_process, fallback_invoked>>
    /\ FetchFrame

\* the request for u is answered with a posting that parses
RequestSucceeds(u) ==
    /\ fpc = "gather"
    /\ task[u].st = "holding"
    /\ ~Fails(u, task[u].retry_count)
    /\ SetSem(Leave(Sem, u))
    /\ result' = [result EXCEPT ![u] = "ok"]
    /\ processed_count' = processed_count + 1
    /\ UNCHANGED <<fpc, batch_start, failed_urls, all_results, valid_results,
                   urls_to_process, fallback_invoked>>
    /\ FetchFrame

\* variant: one retry more than max_retries
CanRetry_OneMore(retry_count) == retry_count <= max_retries

\* if retry_count < max_retries
CanRetry(retry_count) ==
    retry_count < max_retries

\* backoff_time = 2 ** retry_count
Backoff(retry_count) ==
    2 ^ retry_count

\* the request for u fails: retry after the backoff, or give up
RequestFails(u) ==
    /\ fpc = "gather"
    /\ task[u].st = "holding"
    /\ Fails(u, task[u].retry_count)
    /\ IF CanRetry(task[u].retry_count)
       THEN /\ task' = [task EXCEPT ![u].st = "backoff",
                                    ![u].backoff_time = Backoff(task[u].retry_count)]
            /\ UNCHANGED <<semaphore, waiters, result, failed_urls, processed_count>>
       ELSE /\ SetSem(Leave(Sem, u))
            /\ failed_urls' = Append(failed_urls, u)
            /\ result' = [result EXCEPT ![u] = "error"]
            /\ processed_count' = processed_count + 1
    /\ UNCHANGED <<fpc, batch_start, all_results, valid_results,
                   urls_to_process, fallback_invoked>>
    /\ FetchFrame

\* the backoff sleep ends: _fetch_and_extract(url, retry_count + 1) is called
\* inside the async with block of the failed attempt
Retry(u) ==
    /\ fpc = "gather"
    /\ task[u].st = "backoff"
    /\ SetSem(Acquire(Sem, u, task[u].retry_count + 1))
    /\ UNCHANGED <<fpc, batch_start, result, failed_urls, all_results,
                   valid_results, processed_count, urls_to_process,
                   fallback_invoked>>
    /\ FetchFrame

\* variant: gather returns as soon as one call of the batch has returned
AllReturned_Any == \E u \in Batch(fJobUrls, batch_start) : task[u].st = "returned"

\* gather returns when every call of the batch has returned
AllReturned ==
    \A u \in Batch(fJobUrls, batch_start) : task[u].st = "returned"

Unreturned == {u \in Batch(fJobUrls, batch_start) : task[u].st # "returned"}

RECURSIVE LeaveAll(_, _)
LeaveAll(sem, us) ==
    IF us = <<>> THEN sem
    ELSE LET left == Leave(sem, Head(us))
         IN \* the test is always true: it has `left` computed before the
            \* next call is cancelled
            IF left.task[Head(us)].st = "returned"
            THEN LeaveAll(left, Tail(us))
            ELSE sem

\* the 30 seconds of wait_for run out.  The timers of a batch are set
\* together, in list order and for the same duration; they run out together
\* and every call that has not returned is cancelled, in list order.
FetchTimeout ==
    /\ fpc = "gather"
    /\ ~AllReturned
    /\ SetSem(LeaveAll(Sem, SortedSeq(Unreturned)))
    /\ result' = [u \in DOMAIN result |->
                    IF u \in Unreturned THEN "Timeout" ELSE result[u]]
    /\ processed_count' = processed_count + Cardinality(Unreturned)
    /\ UNCHANGED <<fpc, batch_start, failed_urls, all_results, valid_results,
                   urls_to_process, fallback_invoked>>
    /\ FetchFrame

\* gather returns the results of the batch in list order
BatchDone ==
    /\ fpc = "gather"
    /\ AllReturned
    /\ all_results' = all_results \o
          [k \in 1..Cardinality(Batch(fJobUrls, batch_start)) |->
              [url |-> batch_start + k - 1, error |-> result[batch_start + k - 1]]]
    /\ batch_start' = batch_start + batch_size
    /\ fpc' = "loop"
    /\ UNCHANGED <<task, result, semaphore, waiters, failed_urls, valid_results,
                   processed_count, urls_to_process, fallback_invoked>>
    /\ FetchFrame

\* the 300 seconds of the batch run out: the handler asks the coroutine
\* objects in tasks for done(), which they do not have, and the error leaves
\* the function
BatchTimeout ==
    /\ fpc = "gather"
    /\ ~AllReturned
    /\ fpc' = "raised"
    \* wait_for cancels gather, which cancels the calls still running
    /\ SetSem(LeaveAll(Sem, SortedSeq(Unreturned)))
    /\ UNCHANGED <<batch_start, result, failed_urls, all_results, valid_results,
                   processed_count, urls_to_process, fallback_invoked>>
    /\ FetchFrame

\* after the loop: filter out the errors, run the browser fallback if the
\* failed URLs are a significant portion, return valid_results
Finish ==
    /\ fpc = "loop"
    /\ batch_start > Len(fJobUrls)
    /\ LET valid == SelectSeq(all_results, LAMBDA r : r.error = "ok")
           urls == [k \in 1..Len(valid) |-> valid[k].url]
       IN IF SignificantFailures(failed_urls, fJobUrls)
          THEN /\ fallback_invoked' = TRUE
               /\ urls_to_process' =
                    SubSeq(failed_urls, 1, Min(Len(failed_urls), fallback_limit))
               /\ \E playwright_results \in SubLists(urls_to_process') :
                     valid_results' = urls \o playwright_results
          ELSE /\ valid_results' = urls
               /\ UNCHANGED <<fallback_invoked, urls_to_process>>
    /\ fpc' = "done"
    /\ UNCHANGED <<batch_start, task, result, semaphore, waiters, failed_urls,
                   all_results, processed_count>>
    /\ FetchFrame

\* ------------------------------------------------------------------------
\* scraper_controller.py : WorkdayScraper.scrape_all_companies
\* ------------------------------------------------------------------------
Targets ==
    {[name |-> "acme", domain |-> "a.example"],
     [name |-> "globex", domain |-> "b.example"],
     [name |-> "initech", domain |-> "a.example"]}

\* self.company_urls: a dict, so no name occurs twice
Configurations ==
    {c \in UNION {[1..n -> Targets] : n \in 1..MaxTargets} :
        \A i, j \in DOMAIN c : i # j => c[i].name # c[j].name}

NoRun ==
    /\ company_urls = <<>>
    /\ runpc = "idle"
    /\ visited = 0
    /\ all_jobs_to_scrape = <<>>
    /\ outcomes = <<>>

InitRun ==
    /\ company_urls \in Configurations
    /\ runpc = "loop"
    /\ visited = 0
    /\ all_jobs_to_scrape = <<>>
    /\ outcomes = <<>>

\* the smallest whole number of seconds that is no less than r
RCeil(r) == (r.n + r.d - 1) \div r.d

RECURSIVE Successes(_, _)
Successes(l, k) == IF k = 0 THEN l ELSE Successes(success(l), k - 1)

\* scrape_company up to the try: domain_rate_limiter.wait(domain), entered at
\* time now; the limiter after it and the time at which it returns
Waited(lims, defaults, domain, now) ==
    LET l == get_limiter(lims, defaults, domain)
        slept == wait_time(l, now)
        woke == now + RCeil(slept)
    IN [limiter |-> wait(l, woke, slept), at |-> woke]

\* how a scrape_company call ended: the calls of wait counted by the limiter
\* of the domain, the page loads (driver.get and the clicks on the next-page
\* button) and the calls of success and failure
Outcome(ended, before, after, clicks, reports) ==
    [result |-> ended,
     waits |-> after.total_requests - before.total_requests,
     transitions |-> 1 + clicks,
     reports |-> reports]

\* scrape_company returns: the loop of scrape_all_companies extends its list
Extend(name, n, outcome) ==
    /\ all_jobs_to_scrape' = all_jobs_to_scrape \o [i \in 1..n |-> name]
    /\ outcomes' = Append(outcomes, outcome)
    /\ visited' = visited + 1
    /\ UNCHANGED <<company_urls, runpc>>

\* scrape_company, the listing is read: `pages` next-page navigations, each
\* recorded with domain_rate_limiter.success, and n jobs to scrape
ScrapeCompany(pages, n) ==
    /\ runpc = "loop"
    /\ visited < Len(company_urls)
    /\ LET target == company_urls[visited + 1]
           w == Waited(limiters, rlDefaults, target.domain, time)
       IN /\ limiters' = [limiters EXCEPT ![target.domain] = Successes(w.limiter, pages)]
          /\ time' = w.at
          /\ Extend(target.name, n,
                    Outcome("listed",
                            get_limiter(limiters, rlDefaults, target.domain),
                            limiters'[target.domain], pages, pages))
    /\ UNCHANGED <<rlDefaults, rlCalls, rlLast, streak,
                   regLock, lock, thr, created, lockOrder, returned>>

\* scrape_company, driver.get raises (the site is unreachable) or, after
\* `pages` navigations, find_job_listings raises ElementNotFoundError: both
\* handlers record domain_rate_limiter.failure(domain) and the jobs found so
\* far are returned
ScrapeCompanyFails(outcome, pages, n) ==
    /\ runpc = "loop"
    /\ visited < Len(company_urls)
    /\ outcome = "unreachable" => pages = 0 /\ n = 0
    /\ LET target == company_urls[visited + 1]
           w == Waited(limiters, rlDefaults, target.domain, time)
       IN /\ limiters' = [limiters EXCEPT ![target.domain] =
                             failure(Successes(w.limiter, pages), "none")]
          /\ time' = w.at
          /\ Extend(target.name, n,
                    Outcome(outcome,
                            get_limiter(limiters, rlDefaults, target.domain),
                            limiters'[target.domain], pages, pages + 1))
    /\ UNCHANGED <<rlDefaults, rlCalls, rlLast, streak,
                   regLock, lock, thr, created, lockOrder, returned>>

\* scrape_company, SessionContext.__enter__: session_manager.get_session
\* raises (no session became available, or the driver could not be created).
\* The with statement is outside the try of scrape_company and the loop of
\* scrape_all_companies has no handler: the exception leaves both
ScrapeCompanyNoSession ==
    /\ runpc = "loop"
    /\ visited < Len(company_urls)
    /\ runpc' = "raised"
    /\ outcomes' = Append(outcomes, [result |-> "no_session", waits |-> 0,
                                     transitions |-> 0, reports |-> 0])
    /\ visited' = visited + 1
    /\ UNCHANGED <<company_urls, all_jobs_to_scrape, rlVars, thrVars>>

\* scrape_all_companies: the loop is over, the details are scraped
LoopDone ==
    /\ runpc = "loop"
    /\ visited = Len(company_urls)
    /\ runpc' = "done"
    /\ UNCHANGED <<company_urls, visited, all_jobs_to_scrape, outcomes, rlVars, thrVars>>

\* ------------------------------------------------------------------------
\* session_manager.py : WebdriverSessionManager and SessionContext
\* ------------------------------------------------------------------------
NumUsers == 3
Users == 1..NumUsers

\* largest max_sessions a manager is constructed with
MaxSessions == 2

\* values id(driver) can take: an id is unique among the drivers alive at
\* the same time and can be given again once its driver is gone
NumIds == 2
Ids == 1..NumIds

NoSession == 0

InUse(sessions) == {s \in sessions : s.in_use}

\* the drivers the callers are working with
Holders == {u \in Users : upc[u] = "holding"}

\* a driver is alive while its session is listed or a caller still has it
LiveIds == {s.id : s \in all_sessions} \cup {sid[u] : u \in Holders}

is_session_valid(session) == ~session.expired /\ session.responsive

\* the sessions a new session is refused for: in use or used recently
active_count == Cardinality({s \in all_sessions : s.in_use \/ ~s.expired})

\* the positions of get_session inside its waiting loop
InLoop == {"waiting", "wpopped", "empty"}

\* per caller: since it began to wait, fewer than max_sessions sessions were
\* in use at some moment
Observe ==
    below' = [u \in Users |->
                 IF upc'[u] \in InLoop \cup {"timeout"}
                 THEN \/ upc[u] \in InLoop /\ below[u]
                      \/ /\ upc'[u] \in InLoop
                         /\ Cardinality(InUse(all_sessions')) < max_sessions
                 ELSE FALSE]

\* SessionContext.__enter__ → get_session: available_sessions.get(block=False)
Enter(u) ==
    /\ upc[u] = "idle"
    /\ IF available_sessions = <<>>
       THEN /\ upc' = [upc EXCEPT ![u] = "check"]
            /\ UNCHANGED <<sid, available_sessions>>
       ELSE /\ upc' = [upc EXCEPT ![u] = "popped"]
            /\ sid' = [sid EXCEPT ![u] = Head(available_sessions)]
            /\ available_sessions' = Tail(available_sessions)
    /\ UNCHANGED <<max_sessions, all_sessions>>
    /\ Observe

\* the block under session_lock that looks the taken id up: a valid session
\* is handed out, an invalid one is quit and removed, an id that is not
\* listed is dropped; `after` is where get_session goes on without a session
LookUp(u, at, after) ==
    /\ upc[u] = at
    /\ LET found == {s \in all_sessions : s.id = sid[u]} IN
       IF found = {}
       THEN /\ upc' = [upc EXCEPT ![u] = after]
            /\ sid' = [sid EXCEPT ![u] = NoSession]
            /\ UNCHANGED all_sessions
       ELSE LET session == CHOOSE s \in found : TRUE IN
            IF is_session_valid(session)
            THEN /\ all_sessions' = (all_sessions \ {session}) \cup
                       {[session EXCEPT !.in_use = TRUE, !.expired = FALSE]}
                 /\ upc' = [upc EXCEPT ![u] = "holding"]
                 /\ UNCHANGED sid
            ELSE /\ all_sessions' = all_sessions \ {session}
                 /\ upc' = [upc EXCEPT ![u] = after]
                 /\ sid' = [sid EXCEPT ![u] = NoSession]
    /\ UNCHANGED <<max_sessions, available_sessions>>
    /\ Observe

\* get_session, first attempt
TryReuse(u) == LookUp(u, "popped", "check")

\* get_session: a new session while active_count < max_sessions, else wait
CreateOrWait(u) ==
    /\ upc[u] = "check"
    /\ IF active_count < max_sessions
       THEN \E i \in Ids \ LiveIds :
               /\ all_sessions' = all_sessions \cup
                     {[id |-> i, in_use |-> TRUE, expired |-> FALSE,
                       responsive |-> TRUE]}
               /\ sid' = [sid EXCEPT ![u] = i]
               /\ upc' = [upc EXCEPT ![u] = "holding"]
       ELSE /\ upc' = [upc EXCEPT ![u] = "waiting"]
            /\ UNCHANGED <<all_sessions, sid>>
    /\ UNCHANGED <<max_sessions, available_sessions>>
    /\ Observe

\* get_session: _create_driver raises and the exception is re-raised
CreateFails(u) ==
    /\ upc[u] = "check"
    /\ active_count < max_sessions
    /\ upc' = [upc EXCEPT ![u] = "idle"]
    /\ UNCHANGED <<max_sessions, all_sessions, available_sessions, sid>>
    /\ Observe

\* waiting loop: available_sessions.get(block=True, timeout=1)
WaitGet(u) ==
    /\ upc[u] = "waiting"
    /\ IF available_sessions = <<>>
       THEN /\ upc' = [upc EXCEPT ![u] = "empty"]
            /\ UNCHANGED <<sid, available_sessions>>
       ELSE /\ upc' = [upc EXCEPT ![u] = "wpopped"]
            /\ sid' = [sid EXCEPT ![u] = Head(available_sessions)]
            /\ available_sessions' = Tail(available_sessions)
    /\ UNCHANGED <<max_sessions, all_sessions>>
    /\ Observe

\* waiting loop: the id taken from the queue is looked up
WaitReuse(u) == LookUp(u, "wpopped", "waiting")

\* waiting loop, queue.Empty: _cleanup_sessions keeps the sessions in use and
\* the idle ones that are neither expired nor unresponsive
cleanup_sessions(u) ==
    /\ upc[u] = "empty"
    /\ all_sessions' = {s \in all_sessions : s.in_use \/ is_session_valid(s)}
    /\ upc' = [upc EXCEPT ![u] = "waiting"]
    /\ UNCHANGED <<max_sessions, available_sessions, sid>>
    /\ Observe

\* waiting loop: wait_timeout is over, TimeoutError
TimedOut(u) ==
    /\ upc[u] = "waiting"
    /\ upc' = [upc EXCEPT ![u] = "timeout"]
    /\ UNCHANGED <<max_sessions, all_sessions, available_sessions, sid>>
    /\ Observe

\* the caller goes on after the TimeoutError (__exit__ is not run)
GiveUp(u) ==
    /\ upc[u] = "timeout"
    /\ upc' = [upc EXCEPT ![u] = "idle"]
    /\ UNCHANGED <<max_sessions, all_sessions, available_sessions, sid>>
    /\ Observe

\* SessionContext.__exit__ → release_session(session_id)
release_session(u) ==
    /\ upc[u] = "holding"
    /\ LET found == {s \in all_sessions : s.id = sid[u]} IN
       IF found = {}
       THEN UNCHANGED <<all_sessions, available_sessions>>
       ELSE LET session == CHOOSE s \in found : TRUE IN
            /\ all_sessions' = (all_sessions \ {session}) \cup
                  {[session EXCEPT !.in_use = FALSE, !.expired = FALSE]}
            /\ available_sessions' = Append(available_sessions, sid[u])
    /\ upc' = [upc EXCEPT ![u] = "idle"]
    /\ sid' = [sid EXCEPT ![u] = NoSession]
    /\ UNCHANGED max_sessions
    /\ Observe

\* session_timeout seconds pass since a session was last used
Expire ==
    /\ \E s \in all_sessions :
          /\ ~s.expired
          /\ all_sessions' = (all_sessions \ {s}) \cup {[s EXCEPT !.expired = TRUE]}
    /\ UNCHANGED <<max_sessions, available_sessions, upc, sid>>
    /\ Observe

\* a browser stops answering (current_url raises, or readyState is neither
\* complete nor interactive)
Crash ==
    /\ \E s \in all_sessions :
          /\ s.responsive
          /\ all_sessions' = (all_sessions \ {s}) \cup {[s EXCEPT !.responsive = FALSE]}
    /\ UNCHANGED <<max_sessions, available_sessions, upc, sid>>
    /\ Observe

\* WebdriverSessionManager(max_sessions): no session yet
NewManager(n) ==
    /\ max_sessions = n
    /\ all_sessions = {}
    /\ available_sessions = <<>>
    /\ upc = [u \in Users |-> "idle"]
    /\ sid = [u \in Users |-> NoSession]
    /\ below = [u \in Users |-> FALSE]

InitSessions == \E n \in 1..MaxSessions : NewManager(n)

NoSessions == NewManager(1)

\* ------------------------------------------------------------------------
\* Specifications
\* ------------------------------------------------------------------------
\* a subsystem that a specification does not run stays in its initial state
NoRL == InitRL /\ rlDefaults = DefaultSettings

LifeOnly == UNCHANGED <<rlVars, walkVars, fetchVars, thrVars, runVars, sessVars>>
RLOnly == UNCHANGED <<lifeVars, walkVars, fetchVars, thrVars, runVars, sessVars>>
WalkOnly == UNCHANGED <<lifeVars, rlVars, fetchVars, thrVars, runVars, sessVars>>
FetchOnly == UNCHANGED <<lifeVars, rlVars, walkVars, thrVars, runVars, sessVars>>

\* the job lifecycle in the database
Init == InitLife /\ NoRL /\ NoWalk /\ NoFetch /\ NoThreads /\ NoRun /\ NoSessions

Next == NextLife /\ LifeOnly

Spec == Init /\ [][Next]_vars

\* the job lifecycle when statements can raise database errors
InitFault == InitSeeded /\ NoRL /\ NoWalk /\ NoFetch /\ NoThreads /\ NoRun /\ NoSessions

NextFault ==
    \/ \E js \in FaultLists : clock <= MaxFaultRuns /\ SaveJobs(js) /\ LifeOnly
    \/ \E js \in FaultLists, f \in Faults : SaveJobsFault(js, f) /\ LifeOnly

SpecFault == InitFault /\ [][NextFault]_vars

\* the rate limiter registry
InitRateLimiter == InitRL /\ InitLife /\ NoWalk /\ NoFetch /\ NoThreads /\ NoRun /\ NoSessions

NextRateLimiter ==
    \/ \E d \in Domains : Success(d) /\ RLOnly
    \/ \E d \in Domains, e \in ErrorTypes : Failure(d, e) /\ RLOnly

SpecRL == InitRateLimiter /\ [][NextRateLimiter]_vars

\* one walk over a listing
InitWalker == InitWalk /\ InitLife /\ NoRL /\ NoFetch /\ NoThreads /\ NoRun /\ NoSessions

NextWalker ==
    \/ WalkPage /\ WalkOnly
    \/ Verify /\ WalkOnly
    \/ AltWalkPage /\ WalkOnly
    \/ AltDone /\ WalkOnly
    \/ Approach2Start /\ WalkOnly
    \/ Walk2Page /\ WalkOnly
    \/ Walk2Done /\ WalkOnly
    \/ RenderTimeout /\ WalkOnly
    \/ Return /\ WalkOnly

SpecWalk == InitWalker /\ [][NextWalker]_vars

\* the same, with the coroutine never left suspended for ever: every await
\* of get_all_job_urls returns or raises within its timeout
SpecWalkLive == InitWalker /\ [][NextWalker]_vars /\ WF_vars(NextWalker)

\* one run of the detail fetcher
InitFetcher == InitFetch /\ InitLife /\ NoRL /\ NoWalk /\ NoThreads /\ NoRun /\ NoSessions

NextFetcher ==
    \/ StartBatch /\ FetchOnly
    \/ \E u \in SeqToSet(fJobUrls) : RequestSucceeds(u) /\ FetchOnly
    \/ \E u \in SeqToSet(fJobUrls) : RequestFails(u) /\ FetchOnly
    \/ \E u \in SeqToSet(fJobUrls) : Retry(u) /\ FetchOnly
    \/ FetchTimeout /\ FetchOnly
    \/ BatchDone /\ FetchOnly
    \/ BatchTimeout /\ FetchOnly
    \/ Finish /\ FetchOnly

SpecFetch == InitFetcher /\ [][NextFetcher]_vars

\* threads calling the rate limiter registry
InitThreaded == InitThreads /\ InitLife /\ NoWalk /\ NoFetch /\ NoRun /\ NoSessions

ThreadsOnly == UNCHANGED <<lifeVars, walkVars, fetchVars, runVars, sessVars>>

NextThreaded ==
    \/ \E t \in Threads, op \in ThreadOps, d \in Domains :
          Call(t, op, d, "none") /\ ThreadsOnly
    \/ \E t \in Threads : LeaveRegistry(t) /\ ThreadsOnly
    \/ \E t \in Threads : EnterLimiter(t) /\ ThreadsOnly
    \/ \E t \in Threads : Update(t) /\ ThreadsOnly
    \/ \E t \in Threads : Wake(t) /\ ThreadsOnly
    \/ Tick /\ ThreadsOnly

SpecThreads == InitThreaded /\ [][NextThreaded]_vars

\* threads calling the registry while another thread reads its statistics
InitMonitored == InitCallers /\ InitLife /\ NoWalk /\ NoFetch /\ NoRun /\ NoSessions

NextMonitored ==
    \/ \E t \in Threads, op \in ThreadOps, d \in Domains :
          Call(t, op, d, "none") /\ ThreadsOnly
    \/ \E t \in Threads : LeaveRegistry(t) /\ ThreadsOnly
    \/ \E t \in Threads : EnterLimiter(t) /\ ThreadsOnly
    \/ \E t \in Threads : Update(t) /\ ThreadsOnly
    \/ \E t \in Threads : Wake(t) /\ ThreadsOnly
    \/ GetStats(Monitor) /\ ThreadsOnly
    \/ \E d \in Domains : StatsRead(Monitor, d) /\ ThreadsOnly
    \/ StatsDone(Monitor) /\ ThreadsOnly
    \/ Tick /\ ThreadsOnly

SpecStats == InitMonitored /\ [][NextMonitored]_vars

\* one run of the controller over its targets
InitController == InitRun /\ NoRL /\ NoThreads /\ InitLife /\ NoWalk /\ NoFetch /\ NoSessions

RunOnly == UNCHANGED <<lifeVars, walkVars, fetchVars, sessVars>>

NextController ==
    \/ \E p \in 0..MaxNavigations, n \in 0..1 : ScrapeCompany(p, n) /\ RunOnly
    \/ \E o \in {"unreachable", "no_listings"}, p \in 0..MaxNavigations, n \in 0..1 :
          ScrapeCompanyFails(o, p, n) /\ RunOnly
    \/ ScrapeCompanyNoSession /\ RunOnly
    \/ LoopDone /\ RunOnly

SpecRun == InitController /\ [][NextController]_vars

\* callers that take browser sessions through SessionContext
InitManager == InitSessions /\ InitLife /\ NoRL /\ NoWalk /\ NoFetch /\ NoThreads /\ NoRun

SessionsOnly == UNCHANGED <<lifeVars, rlVars, walkVars, fetchVars, thrVars, runVars>>

NextManager ==
    \/ \E u \in Users : Enter(u) /\ SessionsOnly
    \/ \E u \in Users : TryReuse(u) /\ SessionsOnly
    \/ \E u \in Users : CreateOrWait(u) /\ SessionsOnly
    \/ \E u \in Users : CreateFails(u) /\ SessionsOnly
    \/ \E u \in Users : WaitGet(u) /\ SessionsOnly
    \/ \E u \in Users : WaitReuse(u) /\ SessionsOnly
    \/ \E u \in Users : cleanup_sessions(u) /\ SessionsOnly
    \/ \E u \in Users : TimedOut(u) /\ SessionsOnly
    \/ \E u \in Users : GiveUp(u) /\ SessionsOnly
    \/ \E u \in Users : release_session(u) /\ SessionsOnly
    \/ Expire /\ SessionsOnly
    \/ Crash /\ SessionsOnly

SpecSessions == InitManager /\ [][NextManager]_vars

\* ========================================================================
\* Claims about the job lifecycle (specification Spec)
\* ========================================================================
\* history entries appended by the step
NewEntries == SubSeq(history', Len(history) + 1, Len(history'))

EntriesOf(entries, id) == SelectSeq(entries, LAMBDA h : h.job_id = id)

\* C1: a job that was listed before and is then absent from one save_jobs call
\* for its company is still active; absent from two consecutive calls it is
\* closed after the second.
C1_ClosureThreshold ==
    \A i \in 1..Len(jobs) :
        /\ absentRuns[i] = 1 => jobs[i].status = "active"
        /\ absentRuns[i] = 2 => jobs[i].status = "closed"

C1_Witness ==
    \E i \in 1..Len(jobs) : absentRuns[i] = 2 /\ jobs[i].status = "closed"

\* C2: a closed job listed in a save_jobs call is active after that call and
\* got exactly one new history entry, with reason 'Job reappeared in listings';
\* no record goes from closed to active in a call that does not list it.
C2_Reactivation ==
    [][\A i \in 1..Len(jobs) :
        /\ (jobs[i].status = "closed" /\ Listed(companies, jobs[i], lastJobs'))
             => /\ jobs'[i].status = "active"
                /\ EntriesOf(NewEntries, i) =
                     <<[job_id |-> i, status |-> "active", changed_at |-> clock,
                        reason |-> "Job reappeared in listings"]>>
        /\ (jobs[i].status = "closed" /\ jobs'[i].status = "active")
             => Listed(companies, jobs[i], lastJobs')]_vars

C2_Witness ==
    \E k \in 1..Len(history) :
        /\ history[k].reason = "Job reappeared in listings"
        /\ history[k].changed_at = clock - 1
        /\ jobs[history[k].job_id].status = "active"

\* C3 as stated: a save_jobs call with the same argument as the call before
\* makes no status transition and appends no history entry.
C3_Original ==
    [][(clock > 1 /\ lastJobs' = lastJobs)
        => /\ history' = history
           /\ Len(jobs') = Len(jobs)
           /\ \A i \in 1..Len(jobs) : jobs'[i].status = jobs[i].status]_vars

\* C3 amended: a save_jobs call with the same argument as the call before
\* creates no record, reactivates none and appends no history entry for a
\* listed job; every transition it makes is the closure of a record that the
\* argument does not list.
C3_Idempotence ==
    [][(clock > 1 /\ lastJobs' = lastJobs)
        => /\ Len(jobs') = Len(jobs)
           /\ \A k \in 1..Len(NewEntries) :
                /\ NewEntries[k].status = "closed"
                /\ ~Listed(companies, jobs[NewEntries[k].job_id], lastJobs')
           /\ \A i \in 1..Len(jobs) :
                jobs'[i].status # jobs[i].status
                  => /\ jobs[i].status = "active"
                     /\ jobs'[i].status = "closed"
                     /\ ~Listed(companies, jobs[i], lastJobs')]_vars

C3_Witness ==
    /\ repeated
    /\ \E i \in 1..Len(jobs) : Listed(companies, jobs[i], lastJobs)
    /\ \E k \in 1..Len(history) :
        history[k].changed_at = clock - 1 /\ history[k].status = "closed"

\* C4 (Scenario C): from a target whose only record is J1, active and never
\* missed, a run observing nothing leaves J1 active with missed_scrapes 1; a
\* second such run closes it with missed_scrapes 2 and 1 history entry; a
\* third run observing J1 makes it active with missed_scrapes 0 and 2 entries.
J1Row == CHOOSE i \in 1..Len(jobs) :
            jobs[i].job_id = "J1" /\ companies[jobs[i].company_id] = "acme"

C4_ScenarioC ==
    /\ scenC = 1 => /\ jobs[J1Row].status = "active"
                    /\ jobs[J1Row].missed_scrapes = 1
    /\ scenC = 2 => /\ jobs[J1Row].status = "closed"
                    /\ jobs[J1Row].missed_scrapes = 2
                    /\ Len(EntriesOf(history, J1Row)) = 1
    /\ scenC = 3 => /\ jobs[J1Row].status = "active"
                    /\ jobs[J1Row].missed_scrapes = 0
                    /\ Len(EntriesOf(history, J1Row)) = 2

\* ========================================================================
\* Claims about the rate limiter (specification SpecRL)
\* ========================================================================
\* the delay a call on the domain finds: that of its limiter, or the initial
\* delay of the limiter that the call creates
DelayBefore(d) == get_limiter(limiters, rlDefaults, d).current_delay

\* C5: after every sequence of success and failure calls on a domain,
\* current_delay lies within [min_delay, max_delay].
C5_DelayBounds ==
    \A d \in Domains :
        limiters[d] # NoLimiter
          => /\ RLeq(limiters[d].min_delay, limiters[d].current_delay)
             /\ RLeq(limiters[d].current_delay, limiters[d].max_delay)

C5_Witness ==
    \E d \in Domains :
        /\ limiters[d] # NoLimiter
        /\ rlLast = [op |-> "failure", domain |-> d, error_type |-> "rate_limit"]
        /\ limiters[d].failure_count = 3
        /\ limiters[d].current_delay = limiters[d].max_delay
        /\ RLess(rlDefaults.initial, limiters[d].max_delay)

\* C6: a failure call never decreases the current_delay of its domain,
\* whatever the error type, the backoff factor and the state before.
C6_FailureNeverDecreases ==
    [][rlLast'.op = "failure"
        => RLeq(DelayBefore(rlLast'.domain),
                limiters'[rlLast'.domain].current_delay)]_vars

C6_Witness ==
    /\ rlLast.op = "failure"
    /\ rlLast.error_type = "none"
    /\ limiters[rlLast.domain].failure_count = 2
    /\ RLess(rlDefaults.initial, limiters[rlLast.domain].current_delay)
    /\ RLess(limiters[rlLast.domain].current_delay, limiters[rlLast.domain].max_delay)

\* C7: current_delay of a domain decreases only in a success call on that
\* domain that completes success_threshold consecutive successes (the count
\* of successes since the last failure reaches a multiple of the threshold);
\* that call sets it to max(current_delay / 1.2, min_delay) and resets
\* success_count to 0.
C7_DecreaseOnlyAfterThreshold ==
    [][\A d \in Domains :
        /\ (limiters'[d] # NoLimiter /\ RLess(limiters'[d].current_delay, DelayBefore(d)))
             => /\ rlLast'.op = "success"
                /\ rlLast'.domain = d
                /\ streak'[d] >= success_threshold
                /\ streak'[d] % success_threshold = 0
        /\ (rlLast'.op = "success" /\ rlLast'.domain = d
              /\ streak'[d] % success_threshold = 0)
             => /\ limiters'[d].current_delay =
                     RMax(RDiv(DelayBefore(d), DecreaseFactor), limiters'[d].min_delay)
                /\ limiters'[d].success_count = 0]_vars

C7_Witness ==
    \E d \in Domains :
        /\ rlLast = [op |-> "success", domain |-> d, error_type |-> "none"]
        /\ streak[d] = success_threshold
        /\ limiters[d].success_count = 0
        /\ RLess(limiters[d].current_delay, rlDefaults.initial)

\* ------------------------------------------------------------------------
\* Claims on the pagination walker
\* ------------------------------------------------------------------------
NoDuplicates(q) == \A i, j \in 1..Len(q) : q[i] = q[j] => i = j

\* C8: the list get_all_job_urls returns holds every URL once, in the order
\* in which the URLs were first seen, whether or not a URL showed up again
\* on a later page and whether or not a fallback walk ran.
C8_FirstSeenOrder ==
    wpc = "done" => /\ NoDuplicates(unique_urls)
                    /\ unique_urls = Dedupe(kept, {})

\* the least n with n * per >= total
Ceil(total, per) == CHOOSE n \in 0..total : n * per >= total /\ (n - 1) * per < total

ScenarioA == wPages = ScenarioAPages /\ wTotal = 45 /\ wTitles = 20

\* C9: when the label gives a total, expected_pages is the total divided by
\* the jobs per page, rounded up, the jobs per page being 20 when no title
\* is counted on the first page; with a total of 45 and 20 titles it is 3,
\* and a walk over pages of 20, 20 and 5 distinct URLs returns exactly 45
\* URLs, each once, without any fallback having run.
C9_ExpectedPages ==
    /\ (wpc # "idle" /\ wTotal # 0) =>
          expected_pages = Ceil(wTotal, IF wTitles = 0 THEN 20 ELSE wTitles)
    /\ ScenarioA =>
          /\ expected_pages = 3
          /\ wpc = "done" =>
                /\ Len(unique_urls) = 45
                /\ NoDuplicates(unique_urls)
                /\ fallbacks = {}

C9_Witness ==
    /\ ScenarioA
    /\ wpc = "done"
    /\ expected_pages = 3
    /\ Len(unique_urls) = 45

\* ------------------------------------------------------------------------
\* Claims on the detail fetcher
\* ------------------------------------------------------------------------
\* C10: when the fetcher has gone through all batches, the browser fallback
\* has been invoked exactly if the failed URLs are strictly more than 10% of
\* the URLs given (with at most 50 failed URLs); and when the always failing
\* URLs are more than 10% of the list and no other request fails, failed_urls
\* has one entry per always failing URL and the fallback is invoked for
\* exactly those URLs.
C10_FallbackTrigger ==
    fpc = "done" =>
        /\ Len(failed_urls) <= 50 =>
              (fallback_invoked <=> 10 * Len(failed_urls) > Len(fJobUrls))
        /\ (fOnce = {} /\ 10 * Cardinality(fBad) > Len(fJobUrls)) =>
              /\ Len(failed_urls) = Cardinality(fBad)
              /\ fallback_invoked
              /\ SeqToSet(urls_to_process) = fBad

\* C11: the fetcher accounts for every URL it was given: when it is done,
\* each input URL, also one whose fetch timed out, either has a record in the
\* returned list or is in the failed list, and never both.
C11_EveryUrlAccounted ==
    fpc = "done" =>
        \A u \in SeqToSet(fJobUrls) :
            (u \in SeqToSet(valid_results)) # (u \in SeqToSet(failed_urls))

\* ------------------------------------------------------------------------
\* Claims on the job lifecycle when statements can raise
\* ------------------------------------------------------------------------
\* the rows of a company, and the history entries of those rows
RowsOf(cs, js, name) == SelectSeq(js, LAMBDA row : RowCompany(cs, row) = name)

HistoryOf(cs, js, h, name) ==
    SelectSeq(h, LAMBDA e : RowCompany(cs, js[e.job_id]) = name)

\* the company during whose processing the statement raised
FaultedCompany(js, f) == CompanyOrder(js, <<>>)[f.company]

\* C12: when a statement raises a database error at any step of the
\* processing of a company (mark, observe, sweep), the call leaves the rows
\* and the history of that company exactly as they were before the call, and
\* the call reports failed jobs.
C12_RollbackOnError ==
    [][lastFault' # NoFault =>
         LET name == FaultedCompany(lastJobs', lastFault') IN
            /\ RowsOf(companies', jobs', name) = RowsOf(companies, jobs, name)
            /\ HistoryOf(companies', jobs', history', name)
                 = HistoryOf(companies, jobs, history, name)
            /\ ret'.failed > 0]_vars

\* the history entries of row i
EntriesFor(i) == SelectSeq(history, LAMBDA e : e.job_id = i)

\* C13: every status change of a row is atomic with its history entry: in
\* every committed state each row has history entries and the latest one
\* carries the row's status, and every history entry belongs to a row, also
\* when the insert into the history raises.
C13_StatusWithHistory ==
    /\ \A i \in 1..Len(jobs) :
          /\ EntriesFor(i) # <<>>
          /\ EntriesFor(i)[Len(EntriesFor(i))].status = jobs[i].status
    /\ \A k \in 1..Len(history) : history[k].job_id \in 1..Len(jobs)

\* ------------------------------------------------------------------------
\* Further claims on the job lifecycle
\* ------------------------------------------------------------------------
\* C14: after any sequence of save_jobs calls, also calls whose list names
\* the same job more than once, there is at most one row for each pair of
\* job_id and company, and one company row for each company name.
C14_UniqueRecord ==
    /\ \A i, j \in 1..Len(jobs) :
          (jobs[i].job_id = jobs[j].job_id /\ jobs[i].company_id = jobs[j].company_id)
             => i = j
    /\ \A i, j \in 1..Len(companies) : companies[i] = companies[j] => i = j

C14_Witness ==
    /\ lastJobs = <<J1acme, J1acme>>
    /\ ret.saved = 2
    /\ Cardinality({i \in 1..Len(jobs) :
                       jobs[i].job_id = "J1" /\ RowCompany(companies, jobs[i]) = "acme"}) = 1

\* the dictionaries of the most recent call that name a company and a job
Observed == {lastJobs[k] : k \in {k \in 1..Len(lastJobs) :
                                    lastJobs[k].company # "" /\ lastJobs[k].job_id # ""}}

RowFor(dct) ==
    {i \in 1..Len(jobs) :
        jobs[i].job_id = dct.job_id /\ RowCompany(companies, jobs[i]) = dct.company}

\* C15: when save_jobs has returned, every job of its list has a row with
\* missed_scrapes = 0 and last_seen equal to the time of that call, whether
\* the row was created, was already active or was reactivated by the call.
C15_ObservedReset ==
    \A dct \in Observed :
        /\ RowFor(dct) # {}
        /\ \A i \in RowFor(dct) : /\ jobs[i].missed_scrapes = 0
                                  /\ jobs[i].last_seen = clock - 1

C15_Witness ==
    \E dct \in Observed : \E i \in RowFor(dct) :
        /\ jobs[i].missed_scrapes = 0
        /\ jobs[i].last_seen = clock - 1
        /\ EntriesFor(i)[Len(EntriesFor(i))] =
              [job_id |-> i, status |-> "active", changed_at |-> clock - 1,
               reason |-> "Job reappeared in listings"]

\* the latest entry of row i in the history h
LastEntry(h, i) ==
    LET es == SelectSeq(h, LAMBDA e : e.job_id = i) IN es[Len(es)]

\* C16: a row goes from active to closed only in the sweep of a save_jobs
\* call that processes its own company, and only with missed_scrapes >= 2
\* at that moment; a job listed in the call, or created by it, is not closed
\* by that call.
C16_ClosedOnlyBySweep ==
    [][/\ \A i \in 1..Len(jobs) :
            (jobs[i].status = "active" /\ jobs'[i].status = "closed") =>
                /\ Reconciled(companies', jobs'[i], lastJobs')
                /\ ~Listed(companies', jobs'[i], lastJobs')
                /\ jobs'[i].missed_scrapes >= 2
                /\ LastEntry(history', i).reason = "Not found in 2 consecutive scrapes"
       /\ \A i \in (Len(jobs) + 1)..Len(jobs') : jobs'[i].status = "active"]_vars

\* C17: over any sequence of save_jobs calls no row of jobs is deleted and
\* no history entry is changed or deleted: after a call the rows before it
\* are still there under their ids, and the history is the history before
\* the call with zero or more entries appended.
C17_AppendOnly ==
    [][/\ Len(jobs') >= Len(jobs)
       /\ \A i \in 1..Len(jobs) : /\ jobs'[i].job_id = jobs[i].job_id
                                  /\ jobs'[i].company_id = jobs[i].company_id
       /\ Len(history') >= Len(history)
       /\ SubSeq(history', 1, Len(history)) = history]_vars

C17_Witness ==
    \E i \in 1..Len(jobs) :
        /\ Len(EntriesFor(i)) = 3
        /\ EntriesFor(i)[1].reason = "Initial posting"
        /\ EntriesFor(i)[2].reason = "Not found in 2 consecutive scrapes"
        /\ EntriesFor(i)[3].reason = "Job reappeared in listings"

\* ========================================================================
\* Claims about the controller (specification SpecRun)
\* ========================================================================

\* C18: when processing one target fails (the site is unreachable, no browser
\* session is available), the failure is caught and the run goes on with the
\* next target: no exception leaves scrape_all_companies, and when its loop
\* is over scrape_company was called for every target.
C18_RunContinues ==
    /\ runpc # "raised"
    /\ runpc = "done" => visited = Len(company_urls)

\* ========================================================================
\* Claims about concurrent callers of the rate limiter (specification SpecThreads)
\* ========================================================================

\* C19: wait blocks until current_delay has passed since the domain's last
\* permitted call: two consecutive returns of wait for one domain, also from
\* different threads, are at least current_delay apart, and wait returns the
\* time it had to sleep, which is the part of current_delay that had not
\* passed when it was entered (0 when all of it had).
C19_WaitSpacing ==
    [][\A d \in Domains :
          returned'[d].n = returned[d].n + 1 =>
              LET r == returned'[d]
                  delay == limiters'[d].current_delay
                  elapsed == Rat(r.entered - returned[d].at, 1)
              IN /\ RLeq(r.value, Rat(r.at - r.entered, 1))
                 /\ returned[d].n > 0 =>
                       /\ RLeq(delay, Rat(r.at - returned[d].at, 1))
                       /\ r.value = IF RLess(elapsed, delay) THEN RSub(delay, elapsed)
                                    ELSE Rat(0, 1)]_vars

\* a wait that had to sleep has returned, the domain's second return at
\* least, while the other thread is calling wait for the same domain
C19_Witness ==
    \E d \in Domains, t \in Threads :
        /\ returned[d].n >= 2
        /\ returned[d].value.n > 0
        /\ returned[d].by \in Threads \ {t}
        /\ thr[t].op = "wait" /\ thr[t].domain = d

\* the counters of a limiter that calls of different threads can leave different
Counters(l) ==
    [current_delay |-> l.current_delay, success_count |-> l.success_count,
     failure_count |-> l.failure_count, total_requests |-> l.total_requests]

\* the calls on a domain that have returned, in the order they took the lock
Returned(d) ==
    IF lock[d] = 0 THEN lockOrder[d] ELSE SubSeq(lockOrder[d], 1, Len(lockOrder[d]) - 1)

\* C20: concurrent wait, success and failure calls for one domain update its
\* state atomically: the delay and the counters are those that the calls leave
\* when made one after the other in some order (the order in which they took
\* the limiter's lock), and the first accesses to a domain, also concurrent
\* ones, construct one limiter for it.
C20_Linearizable ==
    \A d \in Domains :
        /\ created[d] <= 1
        /\ created[d] = 0 <=> limiters[d] = NoLimiter
        /\ limiters[d] # NoLimiter =>
              Counters(limiters[d]) =
                  Counters(SequentialAll(get_limiter([e \in Domains |-> NoLimiter],
                                                     rlDefaults, d), Returned(d)))

\* a thread is inside a call on a domain's limiter, which another thread
\* that first accessed the domain at the same time is waiting to enter
C20_Witness ==
    \E d \in Domains, t, u \in Threads :
        /\ t # u
        /\ created[d] = 1
        /\ lock[d] = t /\ thr[t].pc \in {"update", "sleep"}
        /\ thr[u].pc = "lock" /\ thr[u].domain = d
        /\ Len(lockOrder[d]) = 1

\* the state kept for one domain
DomainState(d) == <<limiters[d], lock[d], created[d], lockOrder[d], returned[d]>>

\* the domain of the call that thread t is making, or begins in this step
DomainOf(t) == IF thr[t].pc = "idle" THEN thr'[t].domain ELSE thr[t].domain

\* a step of a call for one domain leaves the state of every other domain
\* unchanged (a step of get_stats changes no domain's state)
DomainsIsolated ==
    \A t \in DOMAIN thr :
        thr'[t] # thr[t] =>
            \A e \in Domains \ {DomainOf(t)} : DomainState(e)' = DomainState(e)

\* a thread sleeps in wait for domain d, and a thread that wants to call
\* wait, success or failure for another domain, whose limiter nobody is
\* using, cannot begin: the registry's lock is held by a thread that itself
\* waits for the lock of d
Delayed(d) ==
    \E s, u \in DOMAIN thr, e \in Domains \ {d} :
        /\ thr[s].pc = "sleep" /\ thr[s].domain = d /\ lock[d] = s
        /\ RLess(Rat(time - thr[s].now, 1), thr[s].wait_time)
        /\ u \in Threads \ {s}
        /\ thr[u].pc = "idle" /\ thr[u].calls < MaxThreadCalls
        /\ lock[e] = 0
        /\ regLock \in DOMAIN thr
        /\ thr[regLock].pc = "stats" /\ thr[regLock].pending = {d}

\* C21: rate limiter state is never shared across domains: a wait, success
\* or failure call on one domain leaves every other domain's state unchanged,
\* and a caller sleeping in wait on one domain never delays a call for
\* another domain, whatever get_limiter and get_stats calls run meanwhile.
C21_DomainsIndependent ==
    /\ [][DomainsIsolated]_vars
    /\ [](\A d \in Domains : ~Delayed(d))

\* ========================================================================
\* Further claims on the pagination walker (specification SpecWalk)
\* ========================================================================

\* C22: when a page does not render during a walk, or fewer URLs are found
\* than the label announces, get_all_job_urls still returns, with the URLs
\* it has found: it never ends by raising.
C22_ReturnsNormally ==
    wpc # "raised"

\* ========================================================================
\* Further claims on the detail fetcher (specification SpecFetch)
\* ========================================================================

\* the calls that hold a permit and whose request has not finished
InFlight == {u \in DOMAIN task : task[u].st = "holding"}

\* C23: within a batch, at no time are more than `concurrency` fetches in
\* flight, between acquiring the semaphore and finishing the request,
\* whatever the number of URLs and whichever requests fail and are retried.
C23_BoundedInFlight ==
    Cardinality(InFlight) <= concurrency

\* as many fetches in flight as the semaphore allows, while other calls of
\* the batch wait for a permit
C23_Witness ==
    /\ concurrency = MaxConcurrency
    /\ Cardinality(InFlight) = concurrency
    /\ waiters # <<>>

\* the calls that have been started and have not returned
Running == {u \in DOMAIN task : task[u].st \notin {"pending", "returned"}}

\* C24: the batches of 50 URLs are processed strictly in list order: while
\* a batch is gathered every call of the earlier batches has returned and
\* no call of a later batch has been started, so no fetch of batch N+1
\* starts before batch N has completed or timed out and no fetch of batch N
\* still runs once batch N+1 has started.
C24_BatchesInOrder ==
    /\ (batch_start - 1) % batch_size = 0
    /\ \A u \in DOMAIN task :
          /\ u < batch_start => task[u].st = "returned"
          /\ u >= batch_start + batch_size => task[u].st = "pending"
    /\ Running \subseteq Batch(fJobUrls, batch_start)
    /\ fpc = "loop" => Running = {}

\* the second batch is being gathered, with a fetch of it in flight
C24_Witness ==
    /\ fpc = "gather"
    /\ batch_start = batch_size + 1
    /\ \E u \in InFlight : u >= batch_start

\* C25: when the 5 minutes of a batch run out, extract_job_details_from_jsonld
\* does not fail: it keeps the results of the calls that completed and goes
\* on with the next batch, so the function never ends by raising.
C25_BatchTimeoutSurvived ==
    fpc # "raised"

\* the requests the call for a URL has made or is about to make
Attempts(t) == IF t.st = "pending" THEN 0 ELSE t.retry_count + 1

Occurrences(q, u) == Cardinality({i \in DOMAIN q : q[i] = u})

Escalated(f, failure_count) ==
    CASE failure_count = 1 -> f
      [] failure_count = 2 -> RMul(f, f)
      [] OTHER -> RMul(f, RMul(f, f))

\* the factor of a failure of the given type, generic being the factor of
\* the failures that are neither timeouts nor rate-limit signals
FactorOf(error_type, generic) ==
    CASE error_type = "rate_limit" -> Rat(3, 1)
      [] error_type = "timeout" -> Rat(2, 1)
      [] OTHER -> generic

\* the call just made was op(d) and took the limiter of d from before to after
Reports(op, d, before, after) ==
    /\ rlCalls' = rlCalls + 1
    /\ rlLast'.op = op /\ rlLast'.domain = d
    /\ before = get_limiter(limiters, rlDefaults, d)
    /\ after = limiters'[d]

\* a failure report with factor f: the failure counter goes up by one, the
\* success counter to 0, the delay to min(current_delay * f^min(failure_count, 3), max_delay)
FailureLaw(before, after, f) ==
    /\ after.failure_count = before.failure_count + 1
    /\ after.success_count = 0
    /\ after.current_delay =
          RMin(RMul(before.current_delay, Escalated(f, after.failure_count)),
               before.max_delay)

\* C27 as stated: the factor of a generic failure is 1.5
C27_FixedGenericFactor ==
    [][\A d \in Domains :
          \A before, after \in {get_limiter(limiters, rlDefaults, d), limiters'[d]} :
             /\ Reports("failure", d, before, after) =>
                   FailureLaw(before, after, FactorOf(rlLast'.error_type, Rat(3, 2)))
             /\ Reports("success", d, before, after) => after.failure_count = 0]_vars

\* C27: failure increments the consecutive-failure counter, resets the
\* consecutive-success counter and sets current_delay to
\* min(current_delay * f^min(failure_count, 3), max_delay), failure_count
\* being the incremented counter and f being 3.0 for rate-limit signals,
\* 2.0 for timeouts and the limiter's backoff_factor (1.5 unless configured
\* otherwise) for the other failures; success resets the failure counter.
C27_FailureBackoff ==
    [][\A d \in Domains :
          \A before, after \in {get_limiter(limiters, rlDefaults, d), limiters'[d]} :
             /\ Reports("failure", d, before, after) =>
                   FailureLaw(before, after,
                              FactorOf(rlLast'.error_type, before.backoff_factor))
             /\ Reports("success", d, before, after) => after.failure_count = 0]_vars

\* a second consecutive generic failure that leaves the delay below
\* max_delay, on a limiter whose backoff_factor is not 1.5
C27_Witness ==
    /\ rlLast.op = "failure" /\ rlLast.error_type = "none"
    /\ rlDefaults.backoff # Rat(3, 2)
    /\ LET l == limiters[rlLast.domain] IN
          /\ l # NoLimiter
          /\ l.failure_count = 2
          /\ RLess(l.current_delay, l.max_delay)

\* ========================================================================
\* Further claims on the listing walker (specification SpecWalk)
\* ========================================================================

Distinct(urls) == Cardinality(SeqToSet(urls))

\* expected_total is known and the distinct URLs of the list are fewer than
\* 90% of it
Shortfall(urls) == wTotal # 0 /\ 10 * Distinct(urls) < 9 * wTotal

\* C28: the alternative approaches are entered at the end of the primary
\* walk if and only if expected_total is known and the walk collected fewer
\* distinct URLs than 90% of it, and the walk's list is only ever replaced
\* by a result set with more distinct URLs.
C28_FallbackRule ==
    /\ [][(wpc = "walk" /\ wpc' \in {"alt_walk", "approach2", "dedupe"}) =>
             (wpc' # "dedupe" <=> Shortfall(job_urls))]_vars
    /\ [][(wpc \in {"alt_walk", "walk2"} /\ job_urls' # job_urls) =>
             Distinct(job_urls') > Distinct(job_urls)]_vars

\* the pages a loop has visited, given its page counter and its flag: each
\* iteration either advances the counter or clears the flag
PagesVisited(num, more) == IF more THEN num - 1 ELSE num

\* C29: get_all_job_urls always terminates, even when an enabled next-page
\* control is found on every page: no loop (main walk, approach 1,
\* approach 2) visits more than 100 pages, a loop sets its flag to stop on
\* the first page where no enabled next-page control is found, and it
\* visits no page after that.
C29_WalkTerminates ==
    /\ [](/\ PagesVisited(page_num, has_next_page) <= 100
          /\ PagesVisited(alt_page_num, alt_has_next_page) <= 100
          /\ PagesVisited(approach2_page_num, approach2_has_next_page) <= 100)
    /\ [][/\ (wpc = "walk" /\ job_urls' # job_urls) =>
                (has_next_page' <=> NextFound(wPages, wSticky, page_num))
          /\ (wpc = "alt_walk" /\ alt_job_urls' # alt_job_urls) =>
                (alt_has_next_page' <=> NextFound(wAlt, wSticky, alt_page_num))
          /\ (wpc = "walk2" /\ approach2_urls' # approach2_urls) =>
                (approach2_has_next_page' <=>
                    NextFound(wSite2, wSticky, approach2_page_num))
          /\ ~has_next_page =>
                (wpc = "walk" => job_urls' = job_urls) /\ page_num' = page_num
          /\ ~alt_has_next_page =>
                alt_job_urls' = alt_job_urls /\ alt_page_num' = alt_page_num
          /\ ~approach2_has_next_page =>
                /\ approach2_urls' = approach2_urls
                /\ approach2_page_num' = approach2_page_num]_vars
    /\ <>(wpc \in {"done", "raised"})

\* a walk over a listing whose next-page control stays enabled has returned
\* after 100 pages
C29_Witness ==
    /\ wpc = "done"
    /\ wSticky
    /\ has_next_page
    /\ PagesVisited(page_num, has_next_page) = 100

\* ========================================================================
\* Further claims on the controller (specification SpecRun)
\* ========================================================================

\* C30: during the walk of a target, wait is called for the target's domain
\* before each page load (the initial load and every next-page navigation)
\* and exactly one of success and failure is called after each page load:
\* a walk makes as many calls of wait, and as many reports, as page loads.
C30_LimiterPerTransition ==
    \A i \in DOMAIN outcomes :
       /\ outcomes[i].waits = outcomes[i].transitions
       /\ outcomes[i].reports = outcomes[i].transitions

\* the URLs whose request has been answered, with a posting or with an error
Requested == {u \in DOMAIN result : result[u] \in {"ok", "error"}}

\* C31: no detail request is sent without a preceding wait of the rate
\* limiter for its domain: once a request of the fetcher has been answered,
\* the limiter of some domain exists and has counted at least one wait.
C31_WaitBeforeRequest ==
    Requested # {} =>
       \E d \in Domains :
          /\ limiters[d] # NoLimiter
          /\ limiters[d].total_requests >= 1

\* the permits held by calls that wait for a further permit for their retry
HeldByWaitingRetries ==
    Cardinality({u \in DOMAIN task :
                    task[u].st = "waiting" /\ task[u].retry_count > 0})

\* C32: a failing fetch never blocks on the semaphore while its retry is
\* pending: no state is reached in which no permit is free, no call is
\* requesting or sleeping its backoff, and the permits are held by calls that
\* wait for another permit to retry (only the 30 s timer can end such calls).
C32_NoRetryStarvation ==
    ~ /\ semaphore = 0
      /\ waiters # <<>>
      /\ HeldByWaitingRetries > 0
      /\ \A u \in DOMAIN task : task[u].st \notin {"holding", "backoff"}

\* ========================================================================
\* Further claims on the job lifecycle (specification Spec)
\* ========================================================================

\* C33: without database errors, after any sequence of save_jobs calls every
\* record has 0 <= missed_scrapes <= 2, and no active record has
\* missed_scrapes >= 2: the sweep of the call that raised the counter to 2
\* has closed it.
C33_MissedBounds ==
    \A i \in 1..Len(jobs) :
        /\ jobs[i].missed_scrapes \in 0..2
        /\ jobs[i].status = "active" => jobs[i].missed_scrapes < 2

\* a record closed with two misses beside an active record missed once
C33_Witness ==
    \E i, k \in 1..Len(jobs) :
        /\ jobs[i].status = "closed" /\ jobs[i].missed_scrapes = 2
        /\ jobs[k].status = "active" /\ jobs[k].missed_scrapes = 1

\* C34: after any sequence of save_jobs calls, calls in which a statement
\* raises included, every record has at least one history entry, its
\* latest entry carries the record's current status, and no two consecutive
\* entries of a record carry the same status.
C34_HistoryAlternates ==
    \A i \in 1..Len(jobs) :
        LET entries == EntriesFor(i) IN
        /\ Len(entries) >= 1
        /\ entries[Len(entries)].status = jobs[i].status
        /\ \A k \in 1..(Len(entries) - 1) : entries[k].status # entries[k + 1].status

\* C35: a save_jobs call changes only the companies its jobs name: the row
\* and the history of every job of another company are unchanged; within a
\* named company the mark adds exactly 1 to missed_scrapes of every active
\* row and 0 to every closed row, which is what rows not listed by the call
\* end with (listed rows end with 0, rows raised to 2 are closed).
C35_FrameEffect ==
    [][\A i \in 1..Len(jobs) :
          IF ~Reconciled(companies', jobs[i], lastJobs')
          THEN /\ jobs'[i] = jobs[i]
               /\ EntriesOf(history', i) = EntriesOf(history, i)
          ELSE ~Listed(companies', jobs[i], lastJobs') =>
                  IF jobs[i].status = "active"
                  THEN jobs'[i].missed_scrapes = jobs[i].missed_scrapes + 1
                  ELSE /\ jobs'[i] = jobs[i]
                       /\ EntriesOf(history', i) = EntriesOf(history, i)]_vars

\* the last call named one company only: a row of the other company was
\* left alone, an active row and a closed row of the named company were not
\* listed
C35_Witness ==
    \E i, k, m \in 1..Len(jobs) :
        /\ ~Reconciled(companies, jobs[i], lastJobs)
        /\ jobs[i].status = "active" /\ jobs[i].last_seen < clock - 1
        /\ Reconciled(companies, jobs[k], lastJobs)
        /\ ~Listed(companies, jobs[k], lastJobs)
        /\ jobs[k].status = "active" /\ jobs[k].missed_scrapes = 1
        /\ Reconciled(companies, jobs[m], lastJobs)
        /\ ~Listed(companies, jobs[m], lastJobs)
        /\ jobs[m].status = "closed" /\ jobs[m].last_seen < clock - 1

\* the URLs the primary walk collected: the rows of the pages it visited
PrimaryUrls ==
    UNION {SeqToSet(PageAt(wPages, k)) :
              k \in 1..PagesVisited(page_num, has_next_page)}

\* C36: the list get_all_job_urls returns never holds fewer distinct URLs
\* than the primary walk collected, whichever alternative approaches ran and
\* however many duplicates their walks produced.
C36_NeverFewerThanPrimary ==
    wpc = "done" => Distinct(unique_urls) >= Cardinality(PrimaryUrls)

\* C37: save_jobs returns (saved, failed) with saved + failed equal to the
\* number of input jobs: every job is counted exactly once, also when it
\* lacks a company or a job_id and when the mark or the sweep of its company
\* raises.
C37_EveryJobCountedOnce == ret.saved + ret.failed = Len(lastJobs)

\* ========================================================================
\* Claims about the session manager (specification SpecSessions)
\* ========================================================================
\* C38: with one release per acquisition, no session is held by two callers
\* at the same time and the callers hold at most max_sessions sessions,
\* under every interleaving of get_session, release_session and
\* _cleanup_sessions.
C38_ExclusiveSessions ==
    /\ \A a, b \in Holders : a # b => sid[a] # sid[b]
    /\ Cardinality({sid[u] : u \in Holders}) <= max_sessions

\* C39: get_session raises TimeoutError only if max_sessions sessions were
\* in use during the whole wait: a caller that waits obtains a session once
\* one is released or removed.
C39_TimeoutOnlyWhenFull == \A u \in Users : upc[u] = "timeout" => ~below[u]

====
